---- MODULE Spec2Model ----
(***************************************************************************)
(* Canvas GraphQL query relay and CSRF credential discovery.               *)
(*                                                                         *)
(* Eight specifications share this module:                                 *)
(*   SpecCSRF    the credential discovery functions (shared module         *)
(*               canvas-graphql.js and the ChromeExtension background      *)
(*               script) and the ChromeExtension token diagnostic, run     *)
(*               over bounded page environments;                           *)
(*   Spec        the queryForwarder relay reached through the extension    *)
(*               listeners: tab tracking, executeQuery, the content        *)
(*               script and the executor, with tabs that open, navigate    *)
(*               and close;                                                *)
(*   SpecNative  the relay of the build with native messaging: concurrent  *)
(*               queries, the native-host connection and its reconnects;   *)
(*   SpecLive    the relay next to a loaded page, with fairness on its     *)
(*               steps and an endpoint that may never answer;              *)
(*   SpecExec    the executors building their HTTP request on a page       *)
(*               whose token rotates between calls;                        *)
(*   SpecConnect the native-host connection with every outcome of          *)
(*               connectNativeHost;                                        *)
(*   SpecReconnect  the same connection with fairness on its timers, in a  *)
(*               browser with or without chrome.runtime.connectNative;     *)
(*   SpecPopup   the popup of the ChromeExtension: its Fetch button and    *)
(*               the click handlers that run concurrently.                 *)
(*                                                                         *)
(* JavaScript strings are modelled as sequences of one-character strings,  *)
(* so that includes(), split(), trim(), length and decodeURIComponent are  *)
(* computed and not assumed.                                               *)
(***************************************************************************)
EXTENDS Integers, Sequences, FiniteSets, TLC

VARIABLES
    \* ---- credential discovery and executors (SpecCSRF, SpecExec) ----
    env,          \* the page environment the probes read
    found,        \* result of the shared-module findCSRFToken, or NotRun
    foundCE,      \* result of the ChromeExtension findCSRFToken, or NotRun
    diag,         \* findings of the ChromeExtension diagnoseCSRFToken, or NoFindings
    sent,         \* the last HTTP request an executor issued, and how many it issued
    \* ---- relay (Spec, SpecNative, SpecLive) ----
    tabs,         \* browser tabs: open, url kind, listeners, shared module
    canvasTabs,   \* background.js canvasTabs Map, keys in insertion order
    req,          \* per request: the message the caller sent
    pc,           \* per request: position inside listener / executeQuery
    loc,          \* per request: locals of executeQuery / findCanvasTab
    stats,        \* per request: counters of sends, injections, HTTP POSTs
    reply,        \* per request: the response its caller received
    nativePort,   \* background.js nativePort (0 is null)
    ports,        \* native-host connections: state and posted messages
    timers,       \* pending setTimeout(connectNativeHost, 5000) callbacks
    api,          \* whether chrome.runtime.connectNative is a function
    \* ---- popup of the ChromeExtension (SpecPopup) ----
    popup         \* the Fetch button, the URL input and the running click handlers

csrfVars  == <<env, found, foundCE, diag, sent>>
relayVars == <<tabs, canvasTabs, req, pc, loc, stats, reply, nativePort, ports, timers,
               api>>
popupVars == <<popup>>
vars      == <<env, found, foundCE, diag, sent, popup, api, tabs, canvasTabs, req, pc,
               loc, stats, reply, nativePort, ports, timers>>

(***************************************************************************)
(* Strings                                                                 *)
(***************************************************************************)
Null      == <<"NULL">>        \* JavaScript null
Undefined == <<"UNDEFINED">>   \* JavaScript undefined
Thrown    == <<"THROWN">>      \* the evaluation threw
NotRun    == [token |-> <<"NULL">>, via |-> "notrun"]
\* diagnoseCSRFToken has not run
NoFindings == [foundToken |-> <<"NULL">>, method |-> "notrun"]

Contains(s, c) == \E i \in 1..Len(s) : s[i] = c

\* String.prototype.includes for a one-character needle
IncludesChar(s, c) == Contains(s, c)

RECURSIVE IndexFrom(_, _, _)
\* first index >= i of character c in s, or 0
IndexFrom(s, c, i) ==
    IF i > Len(s) THEN 0
    ELSE IF s[i] = c THEN i
    ELSE IndexFrom(s, c, i + 1)

RECURSIVE Split(_, _)
\* String.prototype.split for a one-character separator
Split(s, c) ==
    LET k == IndexFrom(s, c, 1)
    IN  IF k = 0 THEN <<s>>
        ELSE <<SubSeq(s, 1, k - 1)>> \o Split(SubSeq(s, k + 1, Len(s)), c)

RECURSIVE TrimLeft(_)
TrimLeft(s) == IF Len(s) > 0 /\ s[1] = " " THEN TrimLeft(Tail(s)) ELSE s

RECURSIVE TrimRight(_)
TrimRight(s) ==
    IF Len(s) > 0 /\ s[Len(s)] = " " THEN TrimRight(SubSeq(s, 1, Len(s) - 1)) ELSE s

\* String.prototype.trim
Trim(s) == TrimRight(TrimLeft(s))

\* JavaScript truthiness of a string-or-null value
Truthy(v) == v # Null /\ v # Undefined /\ v # <<>>

HexDigits == <<"0","1","2","3","4","5","6","7","8","9","A","B","C","D","E","F">>
HexLower  == <<"0","1","2","3","4","5","6","7","8","9","a","b","c","d","e","f">>

\* value of a hexadecimal digit, -1 when c is none
HexVal(c) ==
    IF \E i \in 1..16 : HexDigits[i] = c
    THEN (CHOOSE i \in 1..16 : HexDigits[i] = c) - 1
    ELSE IF \E i \in 1..16 : HexLower[i] = c
    THEN (CHOOSE i \in 1..16 : HexLower[i] = c) - 1
    ELSE -1

\* printable ASCII, code points 32..126
AsciiTable ==
    <<" ","!","DQUOTE","#","$","%","&","'","LPAREN","RPAREN","STAR","+",",","-",".","/",
      "0","1","2","3","4","5","6","7","8","9",":",";","<","=",">","?",
      "@","A","B","C","D","E","F","G","H","I","J","K","L","M","N","O",
      "P","Q","R","S","T","U","V","W","X","Y","Z","[","BACKSLASH","]","^","_",
      "BACKTICK","a","b","c","d","e","f","g","h","i","j","k","l","m","n","o",
      "p","q","r","s","t","u","v","w","x","y","z","{","|","}","~">>

AsciiChar(b) == IF b >= 32 /\ b <= 126 THEN AsciiTable[b - 31] ELSE "CTRL"

\* the byte of the escape %hh at position i of s, or -1 when there is none
EscapeByte(s, i) ==
    IF i + 2 > Len(s) \/ s[i] # "%" THEN -1
    ELSE IF HexVal(s[i + 1]) < 0 \/ HexVal(s[i + 2]) < 0 THEN -1
    ELSE 16 * HexVal(s[i + 1]) + HexVal(s[i + 2])

\* number of bytes of the UTF-8 sequence a lead byte starts, 0 when it starts none
Utf8Len(b) ==
    IF b < 128 THEN 1
    ELSE IF b >= 194 /\ b <= 223 THEN 2
    ELSE IF b >= 224 /\ b <= 239 THEN 3
    ELSE IF b >= 240 /\ b <= 244 THEN 4
    ELSE 0

\* the n escapes from position i on are continuation bytes %80..%BF
Continuations(s, i, n) ==
    \A k \in 0..(n - 1) :
        LET b == EscapeByte(s, i + 3 * k) IN b >= 128 /\ b <= 191

RECURSIVE DecodeFrom(_, _)
\* decodeURIComponent from position i on: the decoded text, or Thrown (URIError)
DecodeFrom(s, i) ==
    IF i > Len(s) THEN <<>>
    ELSE IF s[i] # "%" THEN
        LET rest == DecodeFrom(s, i + 1)
        IN  IF rest = Thrown THEN Thrown ELSE <<s[i]>> \o rest
    ELSE
        LET b == EscapeByte(s, i)
            n == IF b < 0 THEN 0 ELSE Utf8Len(b)
        IN  IF n = 0 THEN Thrown
            ELSE IF n > 1 /\ ~Continuations(s, i + 3, n - 1) THEN Thrown
            ELSE LET rest == DecodeFrom(s, i + 3 * n)
                     ch   == IF n = 1 THEN AsciiChar(b) ELSE "NONASCII"
                 IN  IF rest = Thrown THEN Thrown ELSE <<ch>> \o rest

\* decodeURIComponent(s); decodeURIComponent(undefined) is the text "undefined"
decodeURIComponent(s) ==
    IF s = Undefined THEN <<"u","n","d","e","f","i","n","e","d">>
    ELSE DecodeFrom(s, 1)

(***************************************************************************)
(* Page environment read by the credential discovery probes                *)
(***************************************************************************)
Sources ==
    {"metaDash", "metaUnder", "dataAttr", "envUpper", "envLower",
     "jquery", "cookie", "getFn", "script"}

\* every token of a source starts with that source's letter
Tag(s) ==
    CASE s = "metaDash"  -> "m"
      [] s = "metaUnder" -> "u"
      [] s = "dataAttr"  -> "d"
      [] s = "envUpper"  -> "w"
      [] s = "envLower"  -> "l"
      [] s = "jquery"    -> "j"
      [] s = "cookie"    -> "s"
      [] s = "getFn"     -> "g"
      [] s = "script"    -> "r"

Kinds == {"plain", "enc", "bad", "short", "space", "dbl", "empty", "throws"}

\* the token a source holds, by kind
Token(s, k) ==
    CASE k = "plain" -> <<Tag(s)>> \o <<"h","o","u","l","d","N","o","t","B","e","U","s","e","d">>
      [] k = "enc"   -> <<Tag(s)>> \o <<"s","O","t","a","Q","B","x","%","2","F","J","Y","T","X","b","t","c","A">>
      [] k = "bad"   -> <<Tag(s)>> \o <<"b","c","d","e","f","g","h","i","j","k","%","Z","Z">>
      [] k = "short" -> <<Tag(s)>> \o <<"b","c">>
      [] k = "space" -> <<Tag(s)>> \o <<"b","c","d","e","f","g","h","i","j","k","%","2","0","l">>
      [] k = "dbl"   -> <<Tag(s)>> \o <<"b","c","d","e","f","g","h","i","j","k","%","2","5","2","F","l">>
      [] k = "empty" -> <<>>
      [] k = "throws" -> Thrown

CsrfCookieName == <<"_","c","s","r","f","_","t","o","k","e","n">>
CsrfCookieName2 == <<"c","s","r","f","_","t","o","k","e","n">>
CsrfCookieName3 == <<"c","s","r","f","-","t","o","k","e","n">>

\* document.cookie holding a session cookie and the CSRF cookie
CookieString(value) ==
    <<"s","=","1",";"," ">> \o CsrfCookieName \o <<"=">> \o value

\* what a source holds in the page: a string, Null (absent) or Thrown (the read throws)
SourceValue(s, k) ==
    IF k = "throws" THEN Thrown
    ELSE IF s = "cookie" THEN CookieString(Token(s, k))
    ELSE Token(s, k)

\* a page in which exactly the sources of S are present, with the kinds of f
PageEnv(S, f) ==
    [s \in Sources |->
        IF s \in S THEN SourceValue(s, f[s])
        ELSE IF s = "cookie" THEN <<>> ELSE Null]

EmptyEnv == PageEnv({}, <<>>)

(***************************************************************************)
(* Probes                                                                  *)
(***************************************************************************)
RECURSIVE CookieLoop(_, _, _, _)
\* for (let cookie of cookies) { const [name, value] = cookie.trim().split('='); ... }
CookieLoop(cookies, i, names, decodeInside) ==
    IF i > Len(cookies) THEN Null
    ELSE LET parts == Split(Trim(cookies[i]), "=")
             name  == parts[1]
             value == IF Len(parts) >= 2 THEN parts[2] ELSE Undefined
         IN  IF name \in names
             THEN IF decodeInside THEN decodeURIComponent(value) ELSE value
             ELSE CookieLoop(cookies, i + 1, names, decodeInside)

\* the cookie probe: document.cookie.split(';') and the loop above
CookieProbe(doc, names, decodeInside) ==
    IF doc = Thrown THEN Thrown
    ELSE CookieLoop(Split(doc, ";"), 1, names, decodeInside)

\* a methods array that starts with the page configuration object
ConfigFirstMethods == <<"envUpper", "metaDash", "metaUnder", "dataAttr", "cookie">>

\* canvas-graphql.js: the five methods of findCSRFToken, in array order
SharedMethods == <<"metaDash", "metaUnder", "dataAttr", "envUpper", "cookie">>

\* methods[i].fn() of canvas-graphql.js
SharedProbe(i, e) ==
    LET s == SharedMethods[i]
    IN  IF s = "cookie"
        THEN CookieProbe(e[s], {CsrfCookieName, CsrfCookieName2}, FALSE)
        ELSE e[s]

RECURSIVE SharedLoopLast(_, _)
\* a loop without the early return: a later method overrides an earlier one
SharedLoopLast(i, e) ==
    IF i > Len(SharedMethods) THEN [token |-> Null, via |-> "none"]
    ELSE LET token == SharedProbe(i, e)
             rest  == SharedLoopLast(i + 1, e)
         IN  IF rest.via # "none" THEN rest
             ELSE IF token # Thrown /\ Truthy(token)
             THEN [token |-> IF decodeURIComponent(token) = Thrown THEN token
                             ELSE decodeURIComponent(token),
                   via |-> SharedMethods[i]]
             ELSE rest

RECURSIVE SharedLoopNoCatch(_, _)
\* the loop without its outer try/catch: a method that throws ends the function
SharedLoopNoCatch(i, e) ==
    IF i > Len(SharedMethods) THEN [token |-> Null, via |-> "none"]
    ELSE LET token == SharedProbe(i, e)
         IN  IF token = Thrown THEN [token |-> Thrown, via |-> SharedMethods[i]]
             ELSE IF Truthy(token)
             THEN [token |-> IF decodeURIComponent(token) = Thrown THEN token
                             ELSE decodeURIComponent(token),
                   via |-> SharedMethods[i]]
             ELSE SharedLoopNoCatch(i + 1, e)

RECURSIVE SharedLoop(_, _)
\* for (let method of methods) { try { ... } catch (e) { } } return null
SharedLoop(i, e) ==
    IF i > Len(SharedMethods) THEN [token |-> Null, via |-> "none"]
    ELSE LET token == SharedProbe(i, e)
         IN  IF token = Thrown THEN SharedLoop(i + 1, e)
             ELSE IF Truthy(token)
             THEN IF IncludesChar(token, "%")
                  THEN LET d == decodeURIComponent(token)
                       IN  [token |-> IF d = Thrown THEN token ELSE d,
                            via |-> SharedMethods[i]]
                  ELSE [token |-> token, via |-> SharedMethods[i]]
             ELSE SharedLoop(i + 1, e)

\* findCSRFToken() of the shared module: the token returned and the method logged
findCSRFToken(e) == SharedLoop(1, e)

\* ChromeExtension background script: the nine methods of findCSRFToken, in order
CEMethods ==
    <<"metaDash", "metaUnder", "envUpper", "envLower", "jquery",
      "cookie", "dataAttr", "getFn", "script">>

MinTokenLength == 10

\* /^[a-zA-Z0-9+/=_-]+$/ of the ChromeExtension decode step
TokenAlphabet ==
    {"a","b","c","d","e","f","g","h","i","j","k","l","m","n","o","p","q","r","s","t",
     "u","v","w","x","y","z","A","B","C","D","E","F","G","H","I","J","K","L","M","N",
     "O","P","Q","R","S","T","U","V","W","X","Y","Z","0","1","2","3","4","5","6","7",
     "8","9","+","/","=","_","-"}

LooksValid(d) == Len(d) > 0 /\ \A i \in 1..Len(d) : d[i] \in TokenAlphabet

\* methods[i]() of the ChromeExtension findCSRFToken
CEProbe(i, e) ==
    LET s == CEMethods[i]
    IN  IF s = "cookie"
        THEN CookieProbe(e[s], {CsrfCookieName, CsrfCookieName2, CsrfCookieName3}, TRUE)
        ELSE IF s \in {"jquery", "getFn"}
        THEN IF e[s] = Thrown THEN Null ELSE e[s]
        ELSE IF s = "script"
        THEN IF e[s] = Thrown THEN Thrown
             ELSE IF e[s] # Null /\ Len(e[s]) > MinTokenLength THEN e[s] ELSE Null
        ELSE e[s]

RECURSIVE CELoop(_, _)
\* for (let i = 0; i < methods.length; i++) { try { ... } catch (e) { } } return null
CELoop(i, e) ==
    IF i > Len(CEMethods) THEN [token |-> Null, via |-> "none"]
    ELSE LET token == CEProbe(i, e)
         IN  IF token = Thrown THEN CELoop(i + 1, e)
             ELSE IF Truthy(token) /\ Len(token) > MinTokenLength
             THEN IF IncludesChar(token, "%")
                  THEN LET d == decodeURIComponent(token)
                       IN  [token |-> IF d # Thrown /\ Len(d) > MinTokenLength /\ LooksValid(d)
                                      THEN d ELSE token,
                            via |-> CEMethods[i]]
                  ELSE [token |-> token, via |-> CEMethods[i]]
             ELSE CELoop(i + 1, e)

\* findCSRFToken() of the ChromeExtension background script
findCSRFTokenCE(e) == CELoop(1, e)

\* String.prototype.includes
Includes(s, sub) == \E i \in 1..(Len(s) - Len(sub) + 1) : SubSeq(s, i, i + Len(sub) - 1) = sub

\* name && (name.toLowerCase().includes('csrf') || name.toLowerCase().includes('token'))
\* (the names of the model are in lower case)
MentionsToken(name) ==
    /\ name # <<>>
    /\ \/ Includes(name, <<"c","s","r","f">>)
       \/ Includes(name, <<"t","o","k","e","n">>)

DiagThrown == [foundToken |-> Thrown, method |-> "throws"]

RECURSIVE DiagCookies(_, _, _)
\* cookies.forEach(cookie => { ... findings.foundToken = decodeURIComponent(value) ... })
DiagCookies(cookies, i, f) ==
    IF i > Len(cookies) THEN f
    ELSE LET parts == Split(Trim(cookies[i]), "=")
             name  == parts[1]
             value == IF Len(parts) >= 2 THEN parts[2] ELSE Undefined
         IN  IF MentionsToken(name)
             THEN IF decodeURIComponent(value) = Thrown THEN DiagThrown
                  ELSE DiagCookies(cookies, i + 1,
                                   [foundToken |-> decodeURIComponent(value),
                                    method |-> "cookie"])
             ELSE DiagCookies(cookies, i + 1, f)

\* diagnoseCSRFToken() of the ChromeExtension background script: findings.foundToken and
\* findings.method, or DiagThrown when the function throws; the two meta tags are read
\* in the order csrf-token, csrf_token
diagnoseCSRFToken(e) ==
    LET Meta(f, s) == IF e[s] = Null THEN f ELSE [foundToken |-> e[s], method |-> s]
        f0 == [foundToken |-> Null, method |-> "none"]
        f2 == Meta(Meta(f0, "metaDash"), "metaUnder")
        f3 == DiagCookies(Split(e["cookie"], ";"), 1, f2)
        f4 == IF Truthy(e["envUpper"])
              THEN [foundToken |-> e["envUpper"], method |-> "envUpper"]
              ELSE IF Truthy(e["envLower"])
              THEN [foundToken |-> e["envLower"], method |-> "envLower"]
              ELSE f3
        f5 == IF e["jquery"] # Thrown /\ Truthy(e["jquery"])
              THEN [foundToken |-> e["jquery"], method |-> "jquery"]
              ELSE f4
        token == findCSRFTokenCE(e).token
    IN  IF \E s \in {"metaDash", "metaUnder", "cookie", "envUpper", "envLower"} :
              e[s] = Thrown
        THEN DiagThrown
        ELSE IF f3 = DiagThrown THEN DiagThrown
        ELSE IF Truthy(token) /\ ~Truthy(f5.foundToken)
        THEN [foundToken |-> token, method |-> "finder"]
        ELSE f5

(***************************************************************************)
(* Executors: the request they build                                       *)
(***************************************************************************)
HeaderNames ==
    {"Content-Type", "Accept", "X-Requested-With", "Origin", "Referer", "X-CSRF-Token"}

\* the token as the executors write it to the console: csrfToken.substring(0, 20) + '...'
LoggedToken(tok) ==
    IF Truthy(tok)
    THEN SubSeq(tok, 1, IF Len(tok) < 20 THEN Len(tok) ELSE 20) \o <<".", ".", ".">>
    ELSE tok

\* if (csrfToken && csrfToken.includes('%')) { try { csrfToken =
\* decodeURIComponent(csrfToken) } catch (e) { } } of both executors
EnsureDecoded(tok) ==
    IF Truthy(tok) /\ IncludesChar(tok, "%")
    THEN LET d == decodeURIComponent(tok) IN IF d = Thrown THEN tok ELSE d
    ELSE tok

\* headers that carry the token whether or not one was found
HeadersAlways(tok, origin) ==
    [h \in HeaderNames |->
        CASE h = "Content-Type"     -> <<"application/json">>
          [] h = "Accept"           -> <<"application/json+canvas-string-ids, application/json, text/plain, */*">>
          [] h = "X-Requested-With" -> <<"XMLHttpRequest">>
          [] h = "Origin"           -> <<origin>>
          [] h = "Referer"          -> <<"window.location.href">>
          [] h = "X-CSRF-Token"     -> tok]

\* const headers = {...}; if (csrfToken) { headers['X-CSRF-Token'] = csrfToken }
\* a header that is not set is the empty sequence
Headers(tok, origin) ==
    [h \in HeaderNames |->
        CASE h = "Content-Type"     -> <<"application/json">>
          [] h = "Accept"           -> <<"application/json+canvas-string-ids, application/json, text/plain, */*">>
          [] h = "X-Requested-With" -> <<"XMLHttpRequest">>
          [] h = "Origin"           -> <<origin>>
          [] h = "Referer"          -> <<"window.location.href">>
          [] h = "X-CSRF-Token"     -> IF Truthy(tok) THEN tok ELSE <<>>]

\* an executor that keeps the token of its previous call
CachedDiscovery(last, fresh) == IF last.via \in {"none", "notrun"} THEN fresh ELSE last

\* the discovery an executor call runs: always on the page as it is now
FreshDiscovery(last, fresh) == fresh

\* executeGraphQLQuery of the shared module up to its fetch: discovery result res
GraphQLRequest(n, res) ==
    [by |-> "shared", n |-> n, token |-> res, prev |-> <<>>,
     headers |-> Headers(EnsureDecoded(res.token), "https://usflearn.instructure.com")]

\* makeGraphQLRequest of the ChromeExtension up to its fetch
GraphQLRequestCE(n, res) ==
    [by |-> "ce", n |-> n, token |-> res, prev |-> <<>>,
     headers |-> Headers(EnsureDecoded(res.token), "window.location.origin")]

\* prev: the X-CSRF-Token header of the call before
NoRequest == [by |-> "none", n |-> 0, token |-> NotRun, prev |-> <<>>,
              headers |-> [h \in HeaderNames |-> <<>>]]

\* the request rq goes out after the request last
Issue(last, rq) == [rq EXCEPT !.prev = last.headers["X-CSRF-Token"]]

(***************************************************************************)
(* Relay: values                                                           *)
(***************************************************************************)
NumTabs  == 2
MaxReq   == 2
MaxPorts == 2
\* requests the callers of the relay specification have in flight at a time
RelayReqs == 1

TabIds == 1..NumTabs
ReqIds == 1..MaxReq
PortIds == 1..MaxPorts

\* "canvasHost": the hostname contains 'instructure.com' or 'canvas';
\* "canvasPath": only the path or query of the URL contains 'canvas';
\* "other": the URL contains neither
UrlKinds == {"canvasHost", "canvasPath", "other"}

\* url.hostname.includes('instructure.com') || url.hostname.includes('canvas')
HostIsCanvas(u) == u = "canvasHost"

\* tab.url.includes('instructure.com') || tab.url.includes('canvas')
UrlIsCanvas(u) == u \in {"canvasHost", "canvasPath"}

ClosedTab == [st |-> "closed", url |-> "none", listeners |-> 0, module |-> FALSE]

Absent == <<>>
\* a JSON object {allCourses: [...]}; NoData when the member is missing
NoData == [allCourses |-> <<>>, query |-> <<>>]
NoBody == [data |-> NoData, errors |-> Absent, message |-> Absent]
NoErr  == [message |-> Absent, status |-> 0, statusText |-> "", data |-> NoBody,
           rawResponse |-> "", stack |-> ""]
\* calls: how many times the caller's sendResponse was called
NoResponse == [success |-> FALSE, data |-> NoBody, error |-> NoErr, sent |-> FALSE,
               calls |-> 0]

\* the message texts, as sequences of fragments
CCE == "Could not establish connection"
MsgQueryRequired == <<"Query is required">>
MsgNoTab == <<"No active Canvas tab found. Please open a Canvas page first.">>
MsgNoReceiver == <<CCE, ". Receiving end does not exist.">>
MsgChannelClosed == <<"The message channel closed before a response was received.">>
MsgNoSuchTab == <<"No tab with id">>
MsgCannotAccess == <<"Cannot access contents of the page.">>
MsgModule == <<"Canvas GraphQL shared module not loaded. Please refresh the page.">>
MsgFetch == <<"Failed to fetch">>
MsgJson == <<"Unexpected token < in JSON at position 0">>
MsgDefault == <<"Query execution failed">>
InjectPrefix == "Failed to inject content script: "

\* error.message.includes('Could not establish connection')
IncludesCCE(m) == Contains(m, CCE)

QueryText(r) == <<"query", ToString(r)>>
\* the data the endpoint holds for query q: {allCourses: [{name: 'CS101'}]}
DataFor(q) == [allCourses |-> <<"CS101">>, query |-> q]
InvalidToken == <<"invalid token">>

\* what the endpoint may answer to a POST of query q; net = FALSE: fetch rejects
HttpAnswers(q) ==
    { [net |-> TRUE, status |-> 200, statusText |-> "OK", json |-> TRUE,
       body |-> [data |-> DataFor(q), errors |-> Absent, message |-> Absent], text |-> "json"],
      [net |-> TRUE, status |-> 200, statusText |-> "OK", json |-> TRUE,
       body |-> [data |-> NoData, errors |-> <<"Field does not exist">>, message |-> Absent],
       text |-> "json"],
      [net |-> TRUE, status |-> 200, statusText |-> "OK", json |-> FALSE,
       body |-> NoBody, text |-> "<html>"],
      [net |-> TRUE, status |-> 422, statusText |-> "Unprocessable Entity", json |-> TRUE,
       body |-> [data |-> NoData, errors |-> InvalidToken, message |-> Absent], text |-> "json"],
      [net |-> TRUE, status |-> 502, statusText |-> CCE, json |-> FALSE,
       body |-> NoBody, text |-> "Bad Gateway"],
      [net |-> FALSE, status |-> 0, statusText |-> "", json |-> FALSE,
       body |-> NoBody, text |-> ""] }

NoAnswer == [net |-> FALSE, status |-> -1, statusText |-> "", json |-> FALSE,
             body |-> NoBody, text |-> ""]

\* response.ok
ResponseOk(h) == h.status >= 200 /\ h.status <= 299

\* an executor that resolves without returning the parsed body
executeGraphQLQueryNoReturn(h) ==
    IF h.net /\ ResponseOk(h) /\ h.json
    THEN [ok |-> TRUE, value |-> NoBody, error |-> NoErr]
    ELSE [ok |-> FALSE, value |-> NoBody, error |-> [NoErr EXCEPT !.message = MsgFetch]]

\* executeGraphQLQuery after fetch: the value returned, or the error thrown
executeGraphQLQuery(h) ==
    IF ~h.net
    THEN [ok |-> FALSE, value |-> NoBody, error |-> [NoErr EXCEPT !.message = MsgFetch]]
    ELSE IF ~ResponseOk(h)
    THEN [ok |-> FALSE, value |-> NoBody,
          error |-> [message |-> <<"GraphQL request failed: ", ToString(h.status), " ",
                                   h.statusText>>,
                     status |-> h.status,
                     statusText |-> h.statusText,
                     data |-> IF h.json THEN h.body
                              ELSE [NoBody EXCEPT !.message = <<h.text>>],
                     rawResponse |-> h.text,
                     stack |-> ""]]
    ELSE IF ~h.json
    THEN [ok |-> FALSE, value |-> NoBody, error |-> [NoErr EXCEPT !.message = MsgJson]]
    ELSE [ok |-> TRUE, value |-> h.body, error |-> NoErr]

\* content_script.js listener: .then(result => sendResponse({success: true, data: result}))
\* .catch(error => sendResponse({success: false, error: {message, status, ...}}))
ContentResponse(res) ==
    IF res.ok
    THEN [success |-> TRUE, data |-> res.value, error |-> NoErr, sent |-> TRUE, calls |-> 1]
    ELSE [success |-> FALSE, data |-> NoBody, error |-> res.error, sent |-> TRUE,
          calls |-> 1]

\* listeners that answer a success with only the data member of the result
BackgroundResponseDataOnly(res) ==
    IF res.ok
    THEN [success |-> TRUE, data |-> [NoBody EXCEPT !.data = res.value.data],
          error |-> NoErr, sent |-> TRUE, calls |-> 1]
    ELSE [success |-> FALSE, data |-> NoBody,
          error |-> [NoErr EXCEPT !.message = res.error.message, !.stack = "stack"],
          sent |-> TRUE, calls |-> 1]

\* background.js listeners: sendResponse({success: true, data: result}) or
\* sendResponse({success: false, error: {message: error.message, stack: error.stack}})
BackgroundResponse(res) ==
    IF res.ok
    THEN [success |-> TRUE, data |-> res.value, error |-> NoErr, sent |-> TRUE, calls |-> 1]
    ELSE [success |-> FALSE, data |-> NoBody,
          error |-> [NoErr EXCEPT !.message = res.error.message, !.stack = "stack"],
          sent |-> TRUE, calls |-> 1]

\* new Error(message): an Error carries only its message
NewError(m) == [ok |-> FALSE, value |-> NoBody, error |-> [NoErr EXCEPT !.message = m]]

\* response.error?.message || 'Query execution failed'
ErrorMessageOf(resp) ==
    IF resp.error.message # Absent THEN resp.error.message ELSE MsgDefault

(***************************************************************************)
(* Relay: state                                                            *)
(***************************************************************************)
NoReq   == [channel |-> "none", action |-> "none", query |-> Absent, id |-> 0, port |-> 0]
NoOut   == [kind |-> "none", resp |-> NoResponse, msg |-> Absent]
\* polls: turns of the wait loop of handleQueryExecution taken so far;
\* turn: parity of the chrome.tabs.get calls of the lookup that were rejected
NoLoc   == [tabId |-> 0, it |-> 0, n |-> 0, polls |-> 0, turn |-> 0, out |-> NoOut]
\* sends: chrome.tabs.sendMessage calls; injects: executeScript calls that succeeded;
\* posts: HTTP POSTs issued for the request; canvasSeen: some open tab had a Canvas
\* URL at some moment of the request's tab lookup
\* cause: what the last attempt ended with ("ok", "app": the content script answered
\* success false, "transport": sendMessage rejected); last: the endpoint's last answer
\* silent: the endpoint accepted a POST of the request and will never answer it
NoStats == [sends |-> 0, injects |-> 0, posts |-> 0, canvasSeen |-> FALSE,
            cause |-> "none", last |-> NoAnswer, silent |-> FALSE]
NoPort  == [st |-> "unused", posted |-> {}]

\* the popup as it opens: the Fetch button enabled, no click handler running
MaxClicks == 2
Clicks == 1..MaxClicks

PopupIdle == [disabled |-> FALSE, url |-> "empty", h |-> [c \in Clicks |-> "idle"],
              shown |-> "none"]

RelayInit ==
    /\ tabs = [t \in TabIds |-> ClosedTab]
    /\ canvasTabs = <<>>
    /\ req = [r \in ReqIds |-> NoReq]
    /\ pc = [r \in ReqIds |-> "idle"]
    /\ loc = [r \in ReqIds |-> NoLoc]
    /\ stats = [r \in ReqIds |-> NoStats]
    /\ reply = [r \in ReqIds |-> NoResponse]
    /\ nativePort = 0
    /\ ports = [p \in PortIds |-> NoPort]
    /\ timers = 1
    /\ api = TRUE
    /\ popup = PopupIdle

CsrfIdle ==
    /\ env = EmptyEnv
    /\ found = NotRun
    /\ foundCE = NotRun
    /\ diag = NoFindings
    /\ sent = NoRequest

Init == RelayInit /\ CsrfIdle

OpenCanvasTab == \E t \in TabIds : tabs[t].st = "open" /\ UrlIsCanvas(tabs[t].url)

InLookup(r) == pc[r] \in {"tracked", "queryAll"}

\* a delete that leaves the entry in place
KeepAt(s, k) == s

\* the sequence s without its element at position k
RemoveAt(s, k) == SubSeq(s, 1, k - 1) \o SubSeq(s, k + 1, Len(s))

Position(s, x) == IF \E i \in 1..Len(s) : s[i] = x
                  THEN CHOOSE i \in 1..Len(s) : s[i] = x ELSE 0

\* Map.prototype.set of a key: a new key goes last, a present key keeps its place
MapSet(m, k) == IF Position(m, k) = 0 THEN Append(m, k) ELSE m

\* Map.prototype.delete
MapDelete(m, k) == IF Position(m, k) = 0 THEN m ELSE RemoveAt(m, Position(m, k))

\* the live iterators of findCanvasTab after the entry at position k was deleted
IteratorsAfterDelete(k) ==
    [r \in ReqIds |->
        IF pc[r] = "tracked" /\ loc[r].it >= k
        THEN [loc[r] EXCEPT !.it = @ - 1] ELSE loc[r]]

(***************************************************************************)
(* Browser: tabs and pages                                                 *)
(***************************************************************************)
ExecutingIn(r, t) == pc[r] \in {"exec1", "exec2"} /\ loc[r].tabId = t

\* the page of tab t goes away (u = "none") or is replaced by a page of kind u: the
\* message channel of every request executing in it closes, and chrome.tabs.sendMessage
\* rejects
PageGone(t, u) ==
    /\ pc' = [r \in ReqIds |->
                IF ExecutingIn(r, t)
                THEN (IF pc[r] = "exec1" THEN "back1" ELSE "back2") ELSE pc[r]]
    /\ loc' = [r \in ReqIds |->
                IF ExecutingIn(r, t)
                THEN [loc[r] EXCEPT !.polls = 0,
                                    !.out = [kind |-> "reject", resp |-> NoResponse,
                                             msg |-> MsgChannelClosed]]
                ELSE loc[r]]
    /\ stats' = [r \in ReqIds |->
                IF ExecutingIn(r, t) THEN [stats[r] EXCEPT !.cause = "transport"]
                ELSE IF InLookup(r) /\ UrlIsCanvas(u)
                THEN [stats[r] EXCEPT !.canvasSeen = TRUE]
                ELSE stats[r]]

\* the user opens a tab on a page of kind u
OpenTab(t, u) ==
    /\ tabs[t].st = "closed"
    /\ tabs' = [tabs EXCEPT ![t] = [st |-> "open", url |-> u, listeners |-> 0,
                                    module |-> FALSE]]
    /\ PageGone(t, u)
    /\ UNCHANGED <<canvasTabs, req, reply, nativePort, ports, timers>>
    /\ UNCHANGED <<csrfVars, popupVars, api>>

\* the tab loads another page: its content scripts are gone
Navigate(t, u) ==
    /\ tabs[t].st = "open"
    /\ tabs[t].url # u
    /\ tabs' = [tabs EXCEPT ![t] = [st |-> "open", url |-> u, listeners |-> 0,
                                    module |-> FALSE]]
    /\ PageGone(t, u)
    /\ UNCHANGED <<canvasTabs, req, reply, nativePort, ports, timers>>
    /\ UNCHANGED <<csrfVars, popupVars, api>>

\* the user closes the tab; chrome.tabs.onRemoved has not been dispatched yet
CloseTab(t) ==
    /\ tabs[t].st = "open"
    /\ tabs' = [tabs EXCEPT ![t] = [ClosedTab EXCEPT !.st = "closing"]]
    /\ PageGone(t, "none")
    /\ UNCHANGED <<canvasTabs, req, reply, nativePort, ports, timers>>
    /\ UNCHANGED <<csrfVars, popupVars, api>>

\* chrome.tabs.onRemoved listener: canvasTabs.delete(tabId)
OnRemoved(t) ==
    /\ tabs[t].st = "closing"
    /\ tabs' = [tabs EXCEPT ![t] = ClosedTab]
    /\ canvasTabs' = MapDelete(canvasTabs, t)
    /\ loc' = IF Position(canvasTabs, t) = 0 THEN loc
              ELSE IteratorsAfterDelete(Position(canvasTabs, t))
    /\ UNCHANGED <<req, pc, stats, reply, nativePort, ports, timers>>
    /\ UNCHANGED <<csrfVars, popupVars, api>>

\* chrome.tabs.onUpdated listener, changeInfo.status === 'complete'
OnUpdated(t) ==
    /\ tabs[t].st = "open"
    /\ canvasTabs' = IF HostIsCanvas(tabs[t].url) THEN MapSet(canvasTabs, t) ELSE canvasTabs
    /\ UNCHANGED <<tabs, req, pc, loc, stats, reply, nativePort, ports, timers>>
    /\ UNCHANGED <<csrfVars, popupVars, api>>

\* manifest content script content_script.js registers its onMessage listener
LoadContentScript(t) ==
    /\ tabs[t].st = "open"
    /\ HostIsCanvas(tabs[t].url)
    /\ tabs[t].listeners = 0
    /\ tabs' = [tabs EXCEPT ![t].listeners = 1]
    /\ UNCHANGED <<canvasTabs, req, pc, loc, stats, reply, nativePort, ports, timers>>
    /\ UNCHANGED <<csrfVars, popupVars, api>>

\* manifest content script canvas-graphql.js sets window.CanvasGraphQL
LoadModule(t) ==
    /\ tabs[t].st = "open"
    /\ HostIsCanvas(tabs[t].url)
    /\ ~tabs[t].module
    /\ tabs' = [tabs EXCEPT ![t].module = TRUE]
    /\ UNCHANGED <<canvasTabs, req, pc, loc, stats, reply, nativePort, ports, timers>>
    /\ UNCHANGED <<csrfVars, popupVars, api>>

(***************************************************************************)
(* Background script: listeners and executeQuery                           *)
(***************************************************************************)
\* chrome.runtime.onMessage and chrome.runtime.onMessageExternal
ExtensionChannels == {"runtime", "external"}

\* and the nativePort.onMessage listener of the build with native messaging
Channels == ExtensionChannels \cup {"native"}

\* nativePort.postMessage({id: message.id, type: 'response', success, data | error})
\* for the query message i of request r
NativeResponse(r, i, res) ==
    [id |-> i, type |-> "response", of |-> r, body |-> BackgroundResponse(res)]

\* listeners without a .catch: a rejection of executeQuery is answered by nobody
FinishAsNoCatch(r, ch, i, res) ==
    /\ pc' = [pc EXCEPT ![r] = IF res.ok THEN "resolved" ELSE "rejected"]
    /\ loc' = [loc EXCEPT ![r] = NoLoc]
    /\ IF ch = "native"
       THEN /\ ports' = IF nativePort # 0 /\ res.ok
                        THEN [ports EXCEPT ![nativePort].posted =
                                   @ \cup {[id |-> i, type |-> "response", of |-> r,
                                            body |-> BackgroundResponse(res)]}]
                        ELSE ports
            /\ reply' = reply
       ELSE /\ reply' = IF res.ok THEN [reply EXCEPT ![r] = BackgroundResponse(res)]
                        ELSE reply
            /\ ports' = ports

\* the .then / .catch of the listener of channel ch that called executeQuery for
\* request r (message id i), run when executeQuery settles with res
FinishAs(r, ch, i, res) ==
    /\ pc' = [pc EXCEPT ![r] = IF res.ok THEN "resolved" ELSE "rejected"]
    /\ loc' = [loc EXCEPT ![r] = NoLoc]
    /\ IF ch = "native"
       THEN /\ ports' = IF nativePort # 0
                        THEN [ports EXCEPT ![nativePort].posted =
                                                @ \cup {NativeResponse(r, i, res)}]
                        ELSE ports
            /\ reply' = reply
       ELSE /\ reply' = [reply EXCEPT ![r] = [BackgroundResponse(res) EXCEPT
                                                    !.calls = reply[r].calls + 1]]
            /\ ports' = ports

Finish(r, res) == FinishAs(r, req[r].channel, req[r].id, res)

\* const tabId = await findCanvasTab() returned a tab: chrome.tabs.sendMessage(tabId, ...)
SendFirst(r) ==
    /\ pc' = [pc EXCEPT ![r] = "sent1"]
    /\ stats' = [stats EXCEPT ![r].sends = @ + 1]
    /\ UNCHANGED <<reply, ports>>

\* an executeQuery that takes every query
QueryNeverMissing(q) == FALSE

\* if (!query): the query is undefined or the empty string
QueryMissing(q) == q = Absent

\* a listener that calls executeQuery for every message
TakesAnyAction(ch, a) == TRUE

\* if (request.action === 'executeGraphQLQuery') of the two extension listeners,
\* if (message.type === 'query') of the native-port listener
ListenerTakes(ch, a) ==
    IF ch = "native" THEN a = "query" ELSE a = "executeGraphQLQuery"

\* the actions and message types a listener may be sent
MessageActions(ch) ==
    IF ch = "native" THEN {"query", "ready"}
    ELSE {"executeGraphQLQuery", "executeQuery", "diagnoseCSRF"}

\* a listener receives the message {action: a, query, ...}; for its own action it calls
\* executeQuery, which runs to its first await; for another it returns at once
ReceiveMessage(r, ch, a, q, i, p) ==
    /\ pc[r] = "idle"
    /\ a \in MessageActions(ch)
    /\ IF ch = "native" THEN p \in PortIds /\ i > 0 /\ ports[p].st = "open"
       ELSE p = 0 /\ i = 0
    /\ req' = [req EXCEPT ![r] = [channel |-> ch, action |-> a, query |-> q,
                                  id |-> i, port |-> p]]
    /\ IF ~ListenerTakes(ch, a)
       THEN \* no branch of the listener matches
            /\ pc' = [pc EXCEPT ![r] = "ignored"]
            /\ UNCHANGED <<loc, stats, reply, ports>>
       ELSE IF QueryMissing(q)
       THEN \* throw new Error('Query is required')
            /\ FinishAs(r, ch, i, NewError(MsgQueryRequired))
            /\ UNCHANGED stats
       ELSE \* findCanvasTab: await chrome.tabs.get of the first entry, or
            \* await chrome.tabs.query({}) when canvasTabs is empty
            /\ pc' = [pc EXCEPT ![r] = IF canvasTabs = <<>> THEN "queryAll" ELSE "tracked"]
            /\ loc' = [loc EXCEPT ![r] = NoLoc]
            /\ stats' = [stats EXCEPT ![r].canvasSeen = OpenCanvasTab]
            /\ UNCHANGED <<reply, ports>>
    /\ UNCHANGED <<tabs, canvasTabs, nativePort, timers>>
    /\ UNCHANGED <<csrfVars, popupVars, api>>

\* findCanvasTab, one turn of the loop over canvasTabs.entries(), resumed when
\* await chrome.tabs.get(tabId) settles
LookupTracked(r) ==
    /\ pc[r] = "tracked"
    /\ IF loc[r].it >= Len(canvasTabs)
       THEN \* the entry awaited was deleted by onRemoved and was the last one:
            \* catch (e), the delete finds nothing, the loop ends
            /\ pc' = [pc EXCEPT ![r] = "queryAll"]
            /\ UNCHANGED <<canvasTabs, loc, stats, reply, ports>>
       ELSE
       LET k == loc[r].it + 1
           t == canvasTabs[k]
       IN  IF tabs[t].st # "open"
           THEN \* catch (e): canvasTabs.delete(tabId)
                /\ canvasTabs' = RemoveAt(canvasTabs, k)
                /\ loc' = [q \in ReqIds |->
                            IF q # r /\ pc[q] = "tracked" /\ loc[q].it >= k
                            THEN [loc[q] EXCEPT !.it = @ - 1]
                            ELSE IF q = r THEN [loc[q] EXCEPT !.turn = 1 - @]
                            ELSE loc[q]]
                /\ pc' = [pc EXCEPT ![r] = IF k > Len(canvasTabs) - 1
                                           THEN "queryAll" ELSE "tracked"]
                /\ UNCHANGED <<stats, reply, ports>>
           ELSE IF UrlIsCanvas(tabs[t].url)
           THEN \* return tabId
                /\ loc' = [loc EXCEPT ![r].tabId = t]
                /\ SendFirst(r)
                /\ UNCHANGED canvasTabs
           ELSE /\ loc' = [loc EXCEPT ![r].it = k]
                /\ pc' = [pc EXCEPT ![r] = IF k >= Len(canvasTabs)
                                           THEN "queryAll" ELSE "tracked"]
                /\ UNCHANGED <<canvasTabs, stats, reply, ports>>
    /\ UNCHANGED <<tabs, req, nativePort, timers>>
    /\ UNCHANGED <<csrfVars, popupVars, api>>

\* a search of all tabs that takes every open tab, whatever its URL
AnyOpenTab == {t \in TabIds : tabs[t].st = "open"}

\* the tabs chrome.tabs.query({}) lists whose URL is a Canvas URL
CanvasCandidates == {t \in TabIds : tabs[t].st = "open" /\ UrlIsCanvas(tabs[t].url)}

\* findCanvasTab, the search of all tabs, and the throw of executeQuery when it finds none
LookupAll(r) ==
    /\ pc[r] = "queryAll"
    /\ IF CanvasCandidates = {}
       THEN \* return null; throw new Error('No active Canvas tab found. ...')
            /\ Finish(r, NewError(MsgNoTab))
            /\ UNCHANGED <<canvasTabs, stats>>
       ELSE LET t == CHOOSE x \in CanvasCandidates : \A y \in CanvasCandidates : x <= y
            IN  /\ canvasTabs' = MapSet(canvasTabs, t)
                /\ loc' = [loc EXCEPT ![r].tabId = t]
                /\ SendFirst(r)
    /\ UNCHANGED <<tabs, req, nativePort, timers>>
    /\ UNCHANGED <<csrfVars, popupVars, api>>

\* the browser delivers the message of chrome.tabs.sendMessage to the tab's listeners,
\* or rejects the call when there is none
Deliver(r) ==
    /\ pc[r] \in {"sent1", "sent2"}
    /\ LET t == loc[r].tabId
           first == pc[r] = "sent1"
       IN  IF tabs[t].st = "open" /\ tabs[t].listeners > 0
           THEN /\ pc' = [pc EXCEPT ![r] = IF first THEN "exec1" ELSE "exec2"]
                /\ loc' = [loc EXCEPT ![r].n = tabs[t].listeners, ![r].polls = 0]
                /\ UNCHANGED stats
           ELSE /\ pc' = [pc EXCEPT ![r] = IF first THEN "back1" ELSE "back2"]
                /\ loc' = [loc EXCEPT ![r].out = [kind |-> "reject", resp |-> NoResponse,
                                                  msg |-> MsgNoReceiver]]
                /\ stats' = [stats EXCEPT ![r].cause = "transport"]
    /\ UNCHANGED <<tabs, canvasTabs, req, reply, nativePort, ports, timers>>
    /\ UNCHANGED <<csrfVars, popupVars, api>>

(***************************************************************************)
(* Content script and executor                                             *)
(***************************************************************************)
Executing(r) == pc[r] \in {"exec1", "exec2"}

BackOf(r) == IF pc[r] = "exec1" THEN "back1" ELSE "back2"

\* let maxWait = 50
MaxWait == 50

\* a handler that gives up without waiting
WaitOverAtOnce(r) == TRUE

\* maxWait > 0 is false: the loop has run all its turns
WaitOver(r) == loc[r].polls = MaxWait

\* handleQueryExecution: one turn of while (!window.CanvasGraphQL && maxWait > 0):
\* the 100 ms timer fires and maxWait-- runs
Poll(r) ==
    /\ Executing(r)
    /\ ~tabs[loc[r].tabId].module
    /\ ~WaitOver(r)
    /\ loc' = [loc EXCEPT ![r].polls = @ + 1]
    /\ UNCHANGED <<tabs, canvasTabs, req, pc, stats, reply, nativePort, ports, timers>>
    /\ UNCHANGED <<csrfVars, popupVars, api>>

\* handleQueryExecution: while (!window.CanvasGraphQL && maxWait > 0) ran out of
\* turns with the module still missing: throw new Error('Canvas GraphQL shared module
\* not loaded. ...'), answered by the listener's .catch
ModuleMissing(r) ==
    /\ Executing(r)
    /\ ~tabs[loc[r].tabId].module
    /\ WaitOver(r)
    /\ pc' = [pc EXCEPT ![r] = BackOf(r)]
    /\ loc' = [loc EXCEPT ![r].polls = 0,
                          ![r].out = [kind |-> "resp",
                                      resp |-> ContentResponse(NewError(MsgModule)),
                                      msg |-> Absent]]
    /\ stats' = [stats EXCEPT ![r].cause = "app", ![r].last = NoAnswer]
    /\ UNCHANGED <<tabs, canvasTabs, req, reply, nativePort, ports, timers>>
    /\ UNCHANGED <<csrfVars, popupVars, api>>

\* handleQueryExecution calls executeGraphQLQuery in every listener that got the
\* message: each issues its POST; the endpoint answers h; the first sendResponse counts
ExecuteInPage(r, h) ==
    /\ Executing(r)
    /\ tabs[loc[r].tabId].module
    /\ ~stats[r].silent
    /\ h \in HttpAnswers(req[r].query)
    /\ stats' = [stats EXCEPT ![r].posts = @ + loc[r].n,
                              ![r].last = h,
                              ![r].cause = IF executeGraphQLQuery(h).ok THEN "ok" ELSE "app"]
    /\ pc' = [pc EXCEPT ![r] = BackOf(r)]
    /\ loc' = [loc EXCEPT ![r].polls = 0,
                          ![r].out = [kind |-> "resp",
                                      resp |-> ContentResponse(executeGraphQLQuery(h)),
                                      msg |-> Absent]]
    /\ UNCHANGED <<tabs, canvasTabs, req, reply, nativePort, ports, timers>>
    /\ UNCHANGED <<csrfVars, popupVars, api>>

\* await fetch(endpoint, ...) with no AbortController and no timer: the endpoint took
\* the POST and never answers, and the promise stays pending while the page lives
EndpointSilent(r) ==
    /\ Executing(r)
    /\ tabs[loc[r].tabId].module
    /\ ~stats[r].silent
    /\ stats' = [stats EXCEPT ![r].silent = TRUE, ![r].posts = @ + loc[r].n]
    /\ UNCHANGED <<tabs, canvasTabs, req, pc, loc, reply, nativePort, ports, timers>>
    /\ UNCHANGED <<csrfVars, popupVars, api>>

(***************************************************************************)
(* executeQuery after the first chrome.tabs.sendMessage                    *)
(***************************************************************************)
\* the error the try block of an attempt ends with: the rejection of sendMessage,
\* or the Error thrown for a response with success false
AttemptError(o) == IF o.kind = "reject" THEN o.msg ELSE ErrorMessageOf(o.resp)

AttemptOk(o) == o.kind = "resp" /\ o.resp.success

\* an executeQuery that injects and retries after every failed attempt
InjectAlways(m) == TRUE

\* catch (error) of the first attempt: is the content script to be injected?
ShouldInject(m) == IncludesCCE(m)

\* executeQuery resumes after the first await chrome.tabs.sendMessage
ResumeFirst(r) ==
    /\ pc[r] = "back1"
    /\ LET o == loc[r].out
       IN  IF AttemptOk(o)
           THEN \* return response.data
                /\ Finish(r, [ok |-> TRUE, value |-> o.resp.data, error |-> NoErr])
                /\ UNCHANGED stats
           ELSE IF ShouldInject(AttemptError(o))
           THEN \* await chrome.scripting.executeScript(...)
                /\ pc' = [pc EXCEPT ![r] = "inject"]
                /\ loc' = [loc EXCEPT ![r].out = NoOut, ![r].n = 0]
                /\ UNCHANGED <<stats, reply, ports>>
           ELSE \* throw error
                /\ Finish(r, NewError(AttemptError(o)))
                /\ UNCHANGED stats
    /\ UNCHANGED <<tabs, canvasTabs, req, nativePort, timers>>
    /\ UNCHANGED <<csrfVars, popupVars, api>>

\* chrome.scripting.executeScript({target: {tabId}, files: ['canvas-graphql.js',
\* 'content_script.js']}) settles
InjectScripts(r) ==
    /\ pc[r] = "inject"
    /\ LET t == loc[r].tabId
       IN  IF tabs[t].st # "open" \/ ~HostIsCanvas(tabs[t].url)
           THEN \* catch (injectError)
                /\ Finish(r, NewError(<<InjectPrefix>> \o
                        (IF tabs[t].st # "open" THEN MsgNoSuchTab ELSE MsgCannotAccess)))
                /\ stats' = [stats EXCEPT ![r].cause = "inject"]
                /\ UNCHANGED tabs
           ELSE \* await new Promise(resolve => setTimeout(resolve, 500))
                /\ tabs' = [tabs EXCEPT ![t].listeners = @ + 1, ![t].module = TRUE]
                /\ stats' = [stats EXCEPT ![r].injects = @ + 1]
                /\ pc' = [pc EXCEPT ![r] = "wait"]
                /\ UNCHANGED <<loc, reply, ports>>
    /\ UNCHANGED <<canvasTabs, req, nativePort, timers>>
    /\ UNCHANGED <<csrfVars, popupVars, api>>

\* the 500 ms timer fires: the second chrome.tabs.sendMessage
SendSecond(r) ==
    /\ pc[r] = "wait"
    /\ pc' = [pc EXCEPT ![r] = "sent2"]
    /\ stats' = [stats EXCEPT ![r].sends = @ + 1]
    /\ UNCHANGED <<tabs, canvasTabs, req, loc, reply, nativePort, ports, timers>>
    /\ UNCHANGED <<csrfVars, popupVars, api>>

\* executeQuery resumes after the second await chrome.tabs.sendMessage
ResumeSecond(r) ==
    /\ pc[r] = "back2"
    /\ LET o == loc[r].out
       IN  IF AttemptOk(o)
           THEN Finish(r, [ok |-> TRUE, value |-> o.resp.data, error |-> NoErr])
           ELSE \* catch (injectError): throw new Error(`Failed to inject ...`)
                Finish(r, NewError(<<InjectPrefix>> \o AttemptError(o)))
    /\ UNCHANGED <<tabs, canvasTabs, req, stats, nativePort, timers>>
    /\ UNCHANGED <<csrfVars, popupVars, api>>

(***************************************************************************)
(* Native-host connection                                                  *)
(***************************************************************************)
FreePorts == {p \in PortIds : ports[p].st = "unused"}

ConnectedMsg == [id |-> 0, type |-> "connected", of |-> 0, body |-> NoResponse]

\* connectNativeHost(), called at startup or by a reconnect timer.
\* outcome "unavailable": chrome.runtime.connectNative is not a function;
\* outcome "throws": chrome.runtime.connectNative throws;
\* outcome "ok": the port is opened and the confirmation is posted;
\* outcome "postThrows": the port is opened and postMessage throws
ConnectNativeHost(outcome) ==
    /\ timers > 0
    /\ outcome \in {"unavailable", "throws", "ok", "postThrows"}
    /\ (outcome = "unavailable") <=> ~api
    /\ IF outcome = "unavailable"
       THEN \* return, with no retry
            /\ timers' = timers - 1
            /\ UNCHANGED <<nativePort, ports>>
       ELSE IF outcome = "throws"
       THEN \* catch (error): setTimeout(connectNativeHost, 5000)
            /\ UNCHANGED <<nativePort, ports, timers>>
       ELSE /\ FreePorts # {}
            /\ LET p == CHOOSE x \in FreePorts : \A y \in FreePorts : x <= y
               IN  /\ nativePort' = p
                   /\ ports' = [ports EXCEPT ![p] =
                                    [st |-> "open",
                                     posted |-> IF outcome = "ok" THEN {ConnectedMsg} ELSE {}]]
            /\ timers' = IF outcome = "ok" THEN timers - 1 ELSE timers
    /\ UNCHANGED <<tabs, canvasTabs, req, pc, loc, stats, reply>>
    /\ UNCHANGED <<csrfVars, popupVars, api>>

\* an onDisconnect listener that schedules no reconnect
OnDisconnectNoRetry(p) ==
    /\ ports[p].st = "open"
    /\ ports' = [ports EXCEPT ![p].st = "closed"]
    /\ nativePort' = 0
    /\ UNCHANGED <<tabs, canvasTabs, req, pc, loc, stats, reply, timers>>
    /\ UNCHANGED <<csrfVars, popupVars, api>>

\* nativePort.onDisconnect listener of port p
OnDisconnect(p) ==
    /\ ports[p].st = "open"
    /\ ports' = [ports EXCEPT ![p].st = "closed"]
    /\ nativePort' = 0
    /\ timers' = timers + 1
    /\ UNCHANGED <<tabs, canvasTabs, req, pc, loc, stats, reply>>
    /\ UNCHANGED <<csrfVars, popupVars, api>>

(***************************************************************************)
(* Credential discovery runs                                               *)
(***************************************************************************)
MaxPresent == 2

\* a page in which reading any source of T throws and the sources of S hold the
\* kinds of f
ThrowingEnv(T, S, f) ==
    PageEnv(S \cup T, [s \in S \cup T |-> IF s \in T THEN "throws" ELSE f[s]])

\* pages with up to MaxPresent sources of any kind, and pages in which reading any
\* subset of the sources throws, next to fewer than MaxPresent sources that hold a value
CsrfInit ==
    /\ \/ \E S \in SUBSET Sources :
            /\ Cardinality(S) <= MaxPresent
            /\ \E f \in [S -> Kinds] : env = PageEnv(S, f)
       \/ \E T \in SUBSET Sources : \E S \in SUBSET (Sources \ T) :
            /\ Cardinality(S) < MaxPresent
            /\ \E f \in [S -> Kinds] : env = ThrowingEnv(T, S, f)
    /\ found = NotRun
    /\ foundCE = NotRun
    /\ diag = NoFindings
    /\ sent = NoRequest
    /\ RelayInit

\* the executor of the relay calls findCSRFToken() of the shared module
CallFindCSRFToken ==
    /\ found = NotRun
    /\ found' = findCSRFToken(env)
    /\ UNCHANGED <<env, foundCE, diag, sent>>
    /\ UNCHANGED <<relayVars, popupVars>>

\* makeGraphQLRequest of the ChromeExtension calls its findCSRFToken()
CallFindCSRFTokenCE ==
    /\ foundCE = NotRun
    /\ foundCE' = findCSRFTokenCE(env)
    /\ UNCHANGED <<env, found, diag, sent>>
    /\ UNCHANGED <<relayVars, popupVars>>

\* the diagnoseCSRF action of the background script runs diagnoseCSRFToken() in the page
CallDiagnoseCSRFToken ==
    /\ diag = NoFindings
    /\ diag' = diagnoseCSRFToken(env)
    /\ UNCHANGED <<env, found, foundCE, sent>>
    /\ UNCHANGED <<relayVars, popupVars>>

CsrfNext == CallFindCSRFToken \/ CallFindCSRFTokenCE \/ CallDiagnoseCSRFToken

SpecCSRF == CsrfInit /\ [][CsrfNext]_vars

(***************************************************************************)
(* Executor calls on a page whose token rotates                            *)
(***************************************************************************)
MaxCalls == 2
ExecPresent == 1

ExecInit ==
    /\ \E S \in SUBSET Sources :
         /\ Cardinality(S) <= ExecPresent
         /\ \E f \in [S -> Kinds] : env = PageEnv(S, f)
    /\ found = NotRun
    /\ foundCE = NotRun
    /\ diag = NoFindings
    /\ sent = NoRequest
    /\ RelayInit

\* the sources present in page e
Present(e) == {s \in Sources : IF s = "cookie" THEN e[s] # <<>> ELSE e[s] # Null}

\* the session rotates its token: the places that hold one hold another value
RotateToken ==
    /\ \E f \in [Present(env) -> Kinds] :
          /\ PageEnv(Present(env), f) # env
          /\ env' = PageEnv(Present(env), f)
    /\ UNCHANGED <<found, foundCE, diag, sent>>
    /\ UNCHANGED <<relayVars, popupVars>>

\* the content script calls executeGraphQLQuery: let csrfToken = findCSRFToken(); ...
\* await fetch(endpoint, {method: 'POST', headers, ...})
CallExecuteGraphQLQuery ==
    /\ sent.n < MaxCalls
    /\ sent' = Issue(sent, GraphQLRequest(sent.n + 1,
                                          FreshDiscovery(sent.token, findCSRFToken(env))))
    /\ UNCHANGED <<env, found, foundCE, diag>>
    /\ UNCHANGED <<relayVars, popupVars>>

\* the ChromeExtension injects makeGraphQLRequest into the page
CallMakeGraphQLRequest ==
    /\ sent.n < MaxCalls
    /\ sent' = Issue(sent, GraphQLRequestCE(sent.n + 1,
                                            FreshDiscovery(sent.token, findCSRFTokenCE(env))))
    /\ UNCHANGED <<env, found, foundCE, diag>>
    /\ UNCHANGED <<relayVars, popupVars>>

ExecNext == RotateToken \/ CallExecuteGraphQLQuery \/ CallMakeGraphQLRequest

SpecExec == ExecInit /\ [][ExecNext]_vars

(***************************************************************************)
(* The popup of the ChromeExtension: the URL input, the Fetch button and   *)
(* the click handlers that are running; h[c] is where handler c stands:    *)
(* "idle", "query" (awaiting chrome.tabs.query) or "sending" (awaiting the *)
(* reply to its fetchGraphQL message)                                      *)
(***************************************************************************)
\* the user edits the URL input, or the popup fills it in when it opens
TypeUrl(u) ==
    /\ u \in {"empty", "set"}
    /\ popup.url # u
    /\ popup' = [popup EXCEPT !.url = u]
    /\ UNCHANGED <<csrfVars, relayVars>>

\* makeGraphQLRequest up to its await chrome.runtime.sendMessage({action:
\* 'fetchGraphQL', ...}), run by handler c
StartRequest(c) ==
    popup' = [popup EXCEPT !.disabled = TRUE, !.shown = "loading", !.h[c] = "sending"]

\* a click on the Fetch button, which a disabled button does not deliver: the handler
\* runs to its first await
Click(c) ==
    /\ ~popup.disabled
    /\ popup.h[c] = "idle"
    /\ IF popup.url = "empty"
       THEN \* await chrome.tabs.query({active: true, currentWindow: true})
            popup' = [popup EXCEPT !.h[c] = "query"]
       ELSE StartRequest(c)
    /\ UNCHANGED <<csrfVars, relayVars>>

\* chrome.tabs.query settles for handler c: the active tab has a URL, has none, or
\* there is no tab to read
QueryResolves(c, o) ==
    /\ popup.h[c] = "query"
    /\ o \in {"url", "nourl", "throws"}
    /\ IF o = "url" THEN StartRequest(c)
       ELSE popup' = [popup EXCEPT !.h[c] = "idle",
                                   !.shown = IF o = "nourl" THEN "needUrl"
                                             ELSE "detectError"]
    /\ UNCHANGED <<csrfVars, relayVars>>

\* the outcomes of a fetchGraphQL message
ReplyKinds == {"data", "graphqlErrors", "errorResponse", "noResponse", "thrown"}

\* sendMessage settles for handler c: the rest of makeGraphQLRequest runs, and each of
\* its exits sets fetchBtn.disabled = false
Reply(c, o) ==
    /\ popup.h[c] = "sending"
    /\ o \in ReplyKinds
    /\ popup' = [popup EXCEPT !.disabled = FALSE, !.shown = o, !.h[c] = "idle"]
    /\ UNCHANGED <<csrfVars, relayVars>>

PopupNext ==
    \/ \E u \in {"empty", "set"} : TypeUrl(u)
    \/ \E c \in Clicks : Click(c)
    \/ \E c \in Clicks : \E o \in {"url", "nourl", "throws"} : QueryResolves(c, o)
    \/ \E c \in Clicks : \E o \in ReplyKinds : Reply(c, o)

SpecPopup == Init /\ [][PopupNext]_vars

(***************************************************************************)
(* The relay                                                               *)
(***************************************************************************)
Next ==
    \/ \E t \in TabIds, u \in UrlKinds : OpenTab(t, u)
    \/ \E t \in TabIds, u \in UrlKinds : Navigate(t, u)
    \/ \E t \in TabIds : CloseTab(t)
    \/ \E t \in TabIds : OnRemoved(t)
    \/ \E t \in TabIds : OnUpdated(t)
    \/ \E t \in TabIds : LoadContentScript(t)
    \/ \E t \in TabIds : LoadModule(t)
    \/ \E r \in 1..RelayReqs, ch \in ExtensionChannels :
          \E a \in MessageActions(ch), q \in {Absent, QueryText(r)} :
              ReceiveMessage(r, ch, a, q, 0, 0)
    \/ \E r \in ReqIds : LookupTracked(r)
    \/ \E r \in ReqIds : LookupAll(r)
    \/ \E r \in ReqIds : Deliver(r)
    \/ \E r \in ReqIds : Poll(r)
    \/ \E r \in ReqIds : ModuleMissing(r)
    \/ \E r \in ReqIds : \E h \in HttpAnswers(req[r].query) : ExecuteInPage(r, h)
    \/ \E r \in ReqIds : ResumeFirst(r)
    \/ \E r \in ReqIds : InjectScripts(r)
    \/ \E r \in ReqIds : SendSecond(r)
    \/ \E r \in ReqIds : ResumeSecond(r)

Spec == Init /\ [][Next]_vars

(***************************************************************************)
(* The relay of the build with native messaging, next to a Canvas page     *)
(* that is loaded and registered                                           *)
(***************************************************************************)
ReadyTab == [st |-> "open", url |-> "canvasHost", listeners |-> 1, module |-> TRUE]

NativeInit ==
    /\ tabs = [t \in TabIds |-> IF t = 1 THEN ReadyTab ELSE ClosedTab]
    /\ canvasTabs = <<1>>
    /\ req = [r \in ReqIds |-> NoReq]
    /\ pc = [r \in ReqIds |-> "idle"]
    /\ loc = [r \in ReqIds |-> NoLoc]
    /\ stats = [r \in ReqIds |-> NoStats]
    /\ reply = [r \in ReqIds |-> NoResponse]
    /\ nativePort = 0
    /\ ports = [p \in PortIds |-> NoPort]
    /\ timers = 1
    /\ api = TRUE
    /\ popup = PopupIdle
    /\ CsrfIdle

\* the answers of the endpoint in this environment: the data, a rejected token, or a
\* gateway failure
NativeAnswers(q) ==
    {h \in HttpAnswers(q) : h.status \in {422, 502} \/ h.body.data # NoData}

\* callers of every kind send queries concurrently; the confirmation postMessage
\* succeeds on every connection that opens
NativeNext ==
    \/ \E t \in TabIds : CloseTab(t)
    \/ \E t \in TabIds : OnRemoved(t)
    \/ \E r \in ReqIds, ch \in Channels, p \in 0..MaxPorts :
          \E q \in {Absent, QueryText(r)}, i \in {0, r} :
              ReceiveMessage(r, ch, IF ch = "native" THEN "query" ELSE "executeGraphQLQuery",
                             q, i, p)
    \/ \E r \in ReqIds : LookupTracked(r)
    \/ \E r \in ReqIds : LookupAll(r)
    \/ \E r \in ReqIds : Deliver(r)
    \/ \E r \in ReqIds : \E h \in NativeAnswers(req[r].query) : ExecuteInPage(r, h)
    \/ \E r \in ReqIds : ResumeFirst(r)
    \/ \E r \in ReqIds : InjectScripts(r)
    \/ \E r \in ReqIds : SendSecond(r)
    \/ \E r \in ReqIds : ResumeSecond(r)
    \/ \E o \in {"throws", "ok"} : ConnectNativeHost(o)
    \/ \E p \in PortIds : OnDisconnect(p)

SpecNative == NativeInit /\ [][NativeNext]_vars

(***************************************************************************)
(* The connection to the native host: the startup call of                  *)
(* connectNativeHost, its reconnect timers, connections that open, fail to *)
(* open, or open and reject the confirmation, disconnects, and the queries *)
(* and other messages of the host, next to a loaded Canvas page            *)
(***************************************************************************)
ConnectNext ==
    \/ \E r \in 1..RelayReqs, p \in PortIds :
          \E a \in MessageActions("native"), q \in {Absent, QueryText(r)} :
              ReceiveMessage(r, "native", a, q, r, p)
    \/ \E r \in ReqIds : LookupTracked(r)
    \/ \E r \in ReqIds : Deliver(r)
    \/ \E r \in ReqIds : \E h \in NativeAnswers(req[r].query) : ExecuteInPage(r, h)
    \/ \E r \in ReqIds : ResumeFirst(r)
    \/ \E r \in ReqIds : InjectScripts(r)
    \/ \E r \in ReqIds : SendSecond(r)
    \/ \E r \in ReqIds : ResumeSecond(r)
    \/ \E o \in {"throws", "ok", "postThrows"} : ConnectNativeHost(o)
    \/ \E p \in PortIds : OnDisconnect(p)

SpecConnect == NativeInit /\ [][ConnectNext]_vars

(***************************************************************************)
(* The connection to the native host in a browser that may lack            *)
(* chrome.runtime.connectNative: every timer fires, and a connect attempt  *)
(* that can succeed eventually does (the host becomes available); the host *)
(* drops a connection, or rejects the confirmation, only while the model   *)
(* has a connection left to open afterwards                                *)
(***************************************************************************)
ReconnectInit ==
    /\ tabs = [t \in TabIds |-> IF t = 1 THEN ReadyTab ELSE ClosedTab]
    /\ canvasTabs = <<1>>
    /\ req = [r \in ReqIds |-> NoReq]
    /\ pc = [r \in ReqIds |-> "idle"]
    /\ loc = [r \in ReqIds |-> NoLoc]
    /\ stats = [r \in ReqIds |-> NoStats]
    /\ reply = [r \in ReqIds |-> NoResponse]
    /\ nativePort = 0
    /\ ports = [p \in PortIds |-> NoPort]
    /\ timers = 1
    /\ api \in BOOLEAN
    /\ popup = PopupIdle
    /\ CsrfIdle

ReconnectNext ==
    \/ \E r \in 1..RelayReqs, p \in PortIds :
          \E a \in MessageActions("native"), q \in {Absent, QueryText(r)} :
              ReceiveMessage(r, "native", a, q, r, p)
    \/ \E r \in ReqIds : LookupTracked(r)
    \/ \E r \in ReqIds : Deliver(r)
    \/ \E r \in ReqIds : \E h \in NativeAnswers(req[r].query) : ExecuteInPage(r, h)
    \/ \E r \in ReqIds : ResumeFirst(r)
    \/ \E r \in ReqIds : InjectScripts(r)
    \/ \E r \in ReqIds : SendSecond(r)
    \/ \E r \in ReqIds : ResumeSecond(r)
    \/ \E o \in {"unavailable", "throws", "ok"} : ConnectNativeHost(o)
    \/ Cardinality(FreePorts) > 1 /\ ConnectNativeHost("postThrows")
    \/ \E p \in PortIds : FreePorts # {} /\ OnDisconnect(p)

\* the startup call runs and setTimeout(connectNativeHost, 5000) fires, and the host
\* is eventually there
ReconnectFairness ==
    /\ WF_vars(ConnectNativeHost("unavailable"))
    /\ WF_vars(ConnectNativeHost("ok"))

SpecReconnect == ReconnectInit /\ [][ReconnectNext]_vars /\ ReconnectFairness

(***************************************************************************)
(* The relay next to a loaded Canvas page, with an endpoint that may stay   *)
(* silent; every step of the background script and of the content script   *)
(* is taken once it can be, the browser delivers every message, and what    *)
(* the user does with the tab and whether the endpoint answers is free      *)
(***************************************************************************)
LiveNext ==
    \/ \E t \in TabIds, u \in UrlKinds : Navigate(t, u)
    \/ \E t \in TabIds : CloseTab(t)
    \/ \E t \in TabIds : OnRemoved(t)
    \/ \E t \in TabIds : LoadContentScript(t)
    \/ \E t \in TabIds : LoadModule(t)
    \/ \E r \in 1..RelayReqs, ch \in ExtensionChannels :
          \E q \in {Absent, QueryText(r)} : ReceiveMessage(r, ch, "executeGraphQLQuery", q, 0, 0)
    \/ \E r \in ReqIds : LookupTracked(r)
    \/ \E r \in ReqIds : LookupAll(r)
    \/ \E r \in ReqIds : Deliver(r)
    \/ \E r \in ReqIds : Poll(r)
    \/ \E r \in ReqIds : ModuleMissing(r)
    \/ \E r \in ReqIds : \E h \in HttpAnswers(req[r].query) : ExecuteInPage(r, h)
    \/ \E r \in ReqIds : EndpointSilent(r)
    \/ \E r \in ReqIds : ResumeFirst(r)
    \/ \E r \in ReqIds : InjectScripts(r)
    \/ \E r \in ReqIds : SendSecond(r)
    \/ \E r \in ReqIds : ResumeSecond(r)

\* the event loop runs every continuation that is ready, the browser settles
\* chrome.tabs.get, chrome.tabs.query, sendMessage and executeScript, the timers fire,
\* and an endpoint that has not gone silent answers
LiveFairness ==
    \A r \in ReqIds :
        /\ WF_vars(LookupTracked(r))
        /\ WF_vars(LookupAll(r))
        /\ WF_vars(Deliver(r))
        /\ WF_vars(Poll(r))
        /\ WF_vars(ModuleMissing(r))
        /\ WF_vars(\E h \in HttpAnswers(req[r].query) : ExecuteInPage(r, h))
        /\ WF_vars(ResumeFirst(r))
        /\ WF_vars(InjectScripts(r))
        /\ WF_vars(SendSecond(r))
        /\ WF_vars(ResumeSecond(r))

SpecLive == NativeInit /\ [][LiveNext]_vars /\ LiveFairness

(***************************************************************************)
(* Properties                                                              *)
(***************************************************************************)
\* executeQuery settled and the listener's .then or .catch ran
Done(r) == pc[r] \in {"resolved", "rejected"}

\* the request passed the check of its query and went to the tab lookup
LookedUp(r) == req[r].query # Absent

\* the response the caller of request r holds: an extension caller gets it by
\* sendResponse
Answered(r) == reply[r].sent

(***************************************************************************)
(* Properties of credential discovery                                      *)
(***************************************************************************)
\* the text source s holds in page e before any probe touches it: for the cookie
\* source, the value of the CSRF cookie inside document.cookie
RawOf(e, s) ==
    IF s # "cookie" \/ e[s] = Thrown THEN e[s]
    ELSE IF e[s] = <<>> THEN Null
    ELSE SubSeq(e[s], Len(CookieString(<<>>)) + 1, Len(e[s]))

\* source s holds a candidate for the shared-module findCSRFToken: a non-empty string
SharedYields(e, s) == RawOf(e, s) \notin {Null, Thrown, <<>>}

\* source s holds a candidate for the ChromeExtension findCSRFToken: a string the
\* probe returns and the loop accepts
CEYields(e, s) ==
    /\ RawOf(e, s) \notin {Null, Thrown, <<>>}
    /\ IF s = "cookie"
       THEN /\ decodeURIComponent(RawOf(e, s)) # Thrown
            /\ Len(decodeURIComponent(RawOf(e, s))) > MinTokenLength
       ELSE Len(RawOf(e, s)) > MinTokenLength

\* source a is probed before source b in the order m
Before(m, a, b) == Position(m, a) < Position(m, b)

InOrder(m, s) == Position(m, s) > 0

\* the result res names the first source of the order m that holds a candidate and
\* carries a value of that source (every value starts with its source's letter);
\* it is null exactly when no source of the order holds one
Precedence(res, m, e, Yields(_, _)) ==
    IF \E s \in Sources : InOrder(m, s) /\ Yields(e, s)
    THEN /\ InOrder(m, res.via)
         /\ Yields(e, res.via)
         /\ \A s \in Sources : (InOrder(m, s) /\ Yields(e, s)) => ~Before(m, s, res.via)
         /\ Truthy(res.token)
         /\ res.token[1] = Tag(res.via)
    ELSE res.via = "none" /\ res.token = Null

\* window.ENV.CSRF_TOKEN 'wsOtaQBx%2FJYTXbtcA' next to the cookie 'shouldNotBeUsed'
ExamplePage ==
    /\ env["envUpper"] = <<"w","s","O","t","a","Q","B","x","%","2","F","J","Y","T","X","b","t","c","A">>
    /\ RawOf(env, "cookie") = <<"s","h","o","u","l","d","N","o","t","B","e","U","s","e","d">>
    /\ \A s \in Sources \ {"envUpper", "cookie"} : env[s] = Null

ExampleToken == <<"w","s","O","t","a","Q","B","x","/","J","Y","T","X","b","t","c","A">>

\* C2: findCSRFToken returns the value of the first source of its probe order that
\* holds a candidate, never the value of a later source, for every combination of
\* sources present; with ENV 'wsOtaQBx%2FJYTXbtcA' and cookie 'shouldNotBeUsed' it
\* returns 'wsOtaQBx/JYTXbtcA' from the ENV object.
C2_Precedence ==
    /\ found # NotRun =>
            /\ Precedence(found, SharedMethods, env, SharedYields)
            /\ ExamplePage => (found.via = "envUpper" /\ found.token = ExampleToken)
    /\ foundCE # NotRun =>
            /\ Precedence(foundCE, CEMethods, env, CEYields)
            /\ ExamplePage => (foundCE.via = "envUpper" /\ foundCE.token = ExampleToken)

\* both implementations ran on the example page and returned the ENV token
C2_Witness ==
    /\ ExamplePage
    /\ found # NotRun /\ found.token = ExampleToken
    /\ foundCE # NotRun /\ foundCE.token = ExampleToken

\* the first source of the order m that holds a candidate, "none" when there is none
FirstYielding(m, e, Yields(_, _)) ==
    IF \E i \in 1..Len(m) : Yields(e, m[i])
    THEN m[CHOOSE i \in 1..Len(m) : Yields(e, m[i]) /\ \A j \in 1..(i - 1) : ~Yields(e, m[j])]
    ELSE "none"

\* the candidate of source s is a string the loop accepts, before any decoding
SharedCandidate(e, s) == RawOf(e, s) \notin {Null, Thrown, <<>>}

CECandidate(e, s) ==
    RawOf(e, s) \notin {Null, Thrown, <<>>} /\ Len(RawOf(e, s)) > MinTokenLength

\* the decoded candidate when decoding succeeds, the raw candidate when it fails
DecodedOrRaw(raw) ==
    IF decodeURIComponent(raw) = Thrown THEN raw ELSE decodeURIComponent(raw)

\* the result res is the decoded-or-raw candidate of the first source holding one,
\* whenever that candidate contains '%'
DecodeRule(res, m, e, Candidate(_, _)) ==
    LET s == FirstYielding(m, e, Candidate)
    IN  (s # "none" /\ IncludesChar(RawOf(e, s), "%")) =>
            (res.via = s /\ res.token = DecodedOrRaw(RawOf(e, s)))

\* C3 (shared module): a candidate containing '%' is returned decoded when decoding
\* succeeds and raw when it fails, from the same source.
C3_SharedDecodeRule ==
    found # NotRun => DecodeRule(found, SharedMethods, env, SharedCandidate)

\* C3: in every discovery implementation, for every probe including the cookie probe,
\* a candidate containing '%' is returned decoded when decoding succeeds and raw when
\* decoding fails; discovery neither fails nor moves on to another source.
C3_DecodeRule ==
    /\ found # NotRun => DecodeRule(found, SharedMethods, env, SharedCandidate)
    /\ foundCE # NotRun => DecodeRule(foundCE, CEMethods, env, CECandidate)

\* the ChromeExtension discovery ran on a page whose only source is a CSRF cookie
\* with a malformed escape, and found nothing
C3_CookieLost ==
    /\ foundCE # NotRun
    /\ FirstYielding(CEMethods, env, CECandidate) = "cookie"
    /\ decodeURIComponent(RawOf(env, "cookie")) = Thrown
    /\ foundCE.via # "cookie"

(***************************************************************************)
(* Properties of the relay                                                 *)
(***************************************************************************)
\* C1: a request whose tab lookup ran while no open tab had a Canvas URL is answered
\* with success false and the 'No active Canvas tab found' error; no message was sent
\* to a tab and no HTTP POST was made for it.
C1_NoTargetFailsFast ==
    \A r \in ReqIds :
        (LookedUp(r) /\ ~stats[r].canvasSeen) =>
            /\ stats[r].sends = 0
            /\ stats[r].injects = 0
            /\ stats[r].posts = 0
            /\ Done(r) => /\ Answered(r)
                          /\ ~reply[r].success
                          /\ reply[r].error.message = MsgNoTab

\* a request ended with the no-tab error while a tab showing another site was open
C1_Witness ==
    \E r \in ReqIds :
        /\ Done(r) /\ LookedUp(r) /\ ~stats[r].canvasSeen
        /\ reply[r].error.message = MsgNoTab
        /\ \E t \in TabIds : tabs[t].st = "open" /\ tabs[t].url = "other"

\* C4: whatever the first delivery to the content script ends with (success, an error
\* response with any message, a transport error), the query of a request is executed
\* (an HTTP POST is issued for it) at most once.
C4_OneExecution == \A r \in ReqIds : stats[r].posts <= 1

\* a response {success: false, error: {message, ...}}
StructuredError(b) == b.sent /\ ~b.success /\ b.error.message # Absent

\* the responses that reached the caller of request r: the argument of sendResponse,
\* or the response messages with the request's id on the connection it came from
Received(r) ==
    IF req[r].channel = "native"
    THEN {m.body : m \in {x \in ports[req[r].port].posted :
                                x.type = "response" /\ x.id = req[r].id}}
    ELSE IF reply[r].sent THEN {reply[r]} ELSE {}

\* C5: every request that ends in an error, at whatever hop the error arose, has its
\* caller receive a structured {success: false, error: {message, ...}}; no failed
\* request is left without a response.
C5_EveryErrorReachesCaller ==
    \A r \in ReqIds :
        pc[r] = "rejected" =>
            (Received(r) # {} /\ \A b \in Received(r) : StructuredError(b))

\* the step in which the native-port handler's .catch runs for request r
C5_NativeCatch(r) ==
    (pc[r] # "rejected" /\ pc'[r] = "rejected" /\ req'[r].channel = "native") =>
        IF nativePort = 0
        THEN ports' = ports
        ELSE /\ \E m \in ports'[nativePort].posted \ ports[nativePort].posted :
                    m.id = req'[r].id /\ m.type = "response" /\ StructuredError(m.body)
             /\ \A p \in PortIds \ {nativePort} : ports'[p] = ports[p]

\* C5 (as the code has it): a request of the onMessage or onMessageExternal listener
\* that ends in an error is answered with a structured {success: false, error:
\* {message, ...}}; the native-port handler posts such a response, with the query's
\* id, on the connection nativePort refers to when executeQuery rejects, and posts
\* nothing when nativePort is null; every response posted for a failed request is a
\* structured error.
C5_ErrorsAnsweredOrDropped ==
    /\ [](\A r \in ReqIds :
            (pc[r] = "rejected" /\ req[r].channel \in ExtensionChannels) =>
                StructuredError(reply[r]))
    /\ [](\A p \in PortIds : \A m \in ports[p].posted :
            (m.type = "response" /\ pc[m.of] = "rejected") =>
                (StructuredError(m.body) /\ m.id = req[m.of].id))
    /\ [][\A r \in ReqIds : C5_NativeCatch(r)]_vars

\* a query of the native host failed after its connection went away, and no
\* connection carries a response for it
C5_Witness ==
    \E r \in ReqIds :
        /\ pc[r] = "rejected" /\ req[r].channel = "native"
        /\ \A p \in PortIds : \A m \in ports[p].posted : m.of # r
        /\ \E q \in ReqIds : pc[q] = "rejected" /\ req[q].channel \in ExtensionChannels
                              /\ StructuredError(reply[q])

\* the last attempt of request r ended with the endpoint's answer stats[r].last
EndedByAnswer(r) == Done(r) /\ stats[r].cause \in {"ok", "app"} /\ stats[r].last.net

\* a non-2xx answer
HttpError(h) == h.net /\ ~ResponseOk(h)

\* C6: when the endpoint answers with a non-2xx status (422 with body {"errors":
\* ["invalid token"]}), the caller's response has success false and an error carrying
\* that status and a message containing the error text of the body.
C6_HttpErrorSurvives ==
    \A r \in ReqIds :
        (EndedByAnswer(r) /\ HttpError(stats[r].last)) =>
            /\ Answered(r) /\ ~reply[r].success
            /\ reply[r].error.status = stats[r].last.status
            /\ \A i \in 1..Len(stats[r].last.body.errors) :
                    Contains(reply[r].error.message, stats[r].last.body.errors[i])

\* the endpoint answered 200 with a body {"data": D}
AnsweredData(r) ==
    /\ EndedByAnswer(r) /\ ResponseOk(stats[r].last) /\ stats[r].last.json
    /\ stats[r].last.body.data # NoData

\* C7: when the endpoint answers 200 with body {"data": D}, the caller's response is
\* {success: true, data: D}: its data field is the data field of the body.
C7_DataIsBodyData ==
    \A r \in ReqIds :
        AnsweredData(r) =>
            (Answered(r) /\ reply[r].success /\ reply[r].data = stats[r].last.body.data)

\* C7 (as the code has it): when the endpoint answers 200 with body {"data": D}, the
\* caller's response is {success: true, data: {data: D}}: its data field is the whole
\* parsed body, and D, the data of the caller's own query, is its data member.
C7_DataIsBody ==
    \A r \in ReqIds :
        AnsweredData(r) =>
            /\ Answered(r) /\ reply[r].success
            /\ reply[r].data = stats[r].last.body
            /\ reply[r].data.data = DataFor(req[r].query)

C7_Witness ==
    \E r \in ReqIds :
        /\ AnsweredData(r) /\ reply[r].success
        /\ reply[r].data.data = DataFor(QueryText(r))

\* the endpoint answered 2xx with a body holding a top-level errors array
AnsweredErrors(r) ==
    /\ EndedByAnswer(r) /\ ResponseOk(stats[r].last) /\ stats[r].last.json
    /\ stats[r].last.body.errors # Absent

\* the errors array of the endpoint's answer is in the caller's response
ErrorsSurfaced(r) ==
    \/ reply[r].data.errors = stats[r].last.body.errors
    \/ reply[r].error.data.errors = stats[r].last.body.errors

\* C8: a 2xx answer whose body holds a top-level errors array is reported to the
\* caller as a failed query (success false) with the errors array, distinguishable
\* from the report of a non-2xx answer.
C8_ErrorsFailTheQuery ==
    \A r \in ReqIds :
        AnsweredErrors(r) =>
            (Answered(r) /\ ~reply[r].success /\ ErrorsSurfaced(r))

\* C8 (as the code has it): a 2xx answer whose body holds a top-level errors array is
\* reported to the caller with success true and the errors array inside data; a
\* non-2xx answer is reported with success false, so the two differ.
C8_ErrorsInsideData ==
    \A r \in ReqIds :
        /\ AnsweredErrors(r) =>
                /\ Answered(r) /\ reply[r].success
                /\ reply[r].data.errors = stats[r].last.body.errors
        /\ (EndedByAnswer(r) /\ HttpError(stats[r].last)) =>
                (Answered(r) /\ ~reply[r].success)

C8_Witness ==
    /\ \E r \in ReqIds : AnsweredErrors(r) /\ reply[r].success
                          /\ reply[r].data.errors # Absent
    /\ \E t \in TabIds : tabs[t].st = "open"

\* the error message tells the caller that the transport or the injection failed
ReportedAsTransport(m) ==
    m # Absent /\ (m[1] = InjectPrefix \/ m = MsgNoReceiver \/ m = MsgChannelClosed)

\* C9: a request that fails because the transport failed (sendMessage rejected, the
\* channel closed, the injection failed) is reported with a transport error, a request
\* that fails because the content script answered success false is not, and never the
\* other way round.
C9_FailureKindsDistinct ==
    \A r \in ReqIds :
        (Done(r) /\ Answered(r) /\ ~reply[r].success /\ stats[r].sends > 0) =>
            ((stats[r].cause \in {"transport", "inject"})
                <=> ReportedAsTransport(reply[r].error.message))

\* the response messages posted on connection p
ResponsesOn(p) == {m \in ports[p].posted : m.type = "response"}

InFlight(r) == pc[r] \notin {"idle", "ignored", "resolved", "rejected"}

\* C10 (ids and results): every response carries the id of the query whose result
\* it contains, and an extension caller gets the result of its own query.
C10_IdMatchesResult ==
    /\ \A p \in PortIds : \A m \in ResponsesOn(p) :
            /\ m.id = req[m.of].id
            /\ m.body.success => m.body.data.data = DataFor(QueryText(m.id))
    /\ \A r \in ReqIds :
            (Answered(r) /\ reply[r].success) =>
                reply[r].data.data = DataFor(req[r].query)

\* the step in which native query r settles while native query q is in flight: the
\* response of r is not posted on the connection of q's caller, unless it is r's too
C10_NoCrossDelivery(r, q) ==
    (/\ InFlight(r) /\ Done(r)' /\ req[r].channel = "native"
     /\ q # r /\ InFlight(q) /\ req[q].channel = "native"
     /\ req[q].port # req[r].port) =>
        ports'[req[q].port].posted = ports[req[q].port].posted

\* C10: for two queries with distinct ids in flight concurrently, each response
\* carries the id of the query whose result it contains and is delivered only to
\* that query's caller; no caller receives another request's result.
C10_OwnResponseOnly ==
    /\ []C10_IdMatchesResult
    /\ [][\A r \in ReqIds, q \in ReqIds : C10_NoCrossDelivery(r, q)]_vars

\* the request was received by a listener and executeQuery has not settled
Dispatched(r) == pc[r] \notin {"idle", "ignored"} /\ ~Done(r)

\* C11: every dispatched request eventually reaches a terminal state (its caller is
\* answered), also when the content script's HTTP call never answers: the call never
\* waits forever.
C11_ReachesTerminal ==
    \A r \in ReqIds : Dispatched(r) ~> Done(r)

\* C11 (what the code does ensure): a dispatched request reaches a terminal state
\* unless the endpoint stays silent on it, and then it ends only if its page goes away.
C11_TerminalUnlessSilent ==
    \A r \in ReqIds : Dispatched(r) ~> (Done(r) \/ stats[r].silent)

\* C11 (finality): a request that reached a terminal state never changes state again,
\* and the response its caller got is never replaced.
C11_TerminalIsFinal ==
    [][\A r \in ReqIds : Done(r) => (pc'[r] = pc[r] /\ reply'[r] = reply[r])]_vars

(***************************************************************************)
(* Properties of the executors' requests                                   *)
(***************************************************************************)
\* C12: every executor call issues its POST whether or not discovery found a token;
\* the request carries X-CSRF-Token exactly when discovery returned a token, and it
\* always carries Content-Type, Accept, X-Requested-With, Origin and Referer.
C12_HeaderIffToken ==
    /\ [](sent.n > 0 =>
            /\ (sent.headers["X-CSRF-Token"] # <<>>) <=> (sent.token.token # Null)
            /\ \A h \in HeaderNames \ {"X-CSRF-Token"} : sent.headers[h] # <<>>)
    /\ [][(sent' # sent) => (sent'.n = sent.n + 1 /\ sent'.by \in {"shared", "ce"})]_vars

\* an executor issued its request on a page where discovery found nothing, without
\* the X-CSRF-Token header
C12_Witness ==
    /\ sent.n > 0 /\ sent.by = "shared"
    /\ sent.token.token = Null
    /\ sent.headers["X-CSRF-Token"] = <<>>
    /\ sent.headers["Referer"] # <<>>

\* C13: findCSRFToken never throws, whatever subset of its probes throws: it returns
\* a token string or null, and null exactly when no probe yields an acceptable
\* candidate.
C13_NeverThrows ==
    /\ found # NotRun =>
            /\ found.token \notin {Thrown, Undefined, <<>>}
            /\ (found.token = Null) <=>
                    ~\E s \in Sources : InOrder(SharedMethods, s) /\ SharedYields(env, s)
    /\ foundCE # NotRun =>
            /\ foundCE.token \notin {Thrown, Undefined, <<>>}
            /\ (foundCE.token = Null) <=>
                    ~\E s \in Sources : InOrder(CEMethods, s) /\ CEYields(env, s)

\* both implementations ran on a page where every probe before window.ENV throws,
\* and both returned the ENV token
C13_Witness ==
    /\ found # NotRun /\ foundCE # NotRun
    /\ \A s \in {"metaDash", "metaUnder", "dataAttr"} : env[s] = Thrown
    /\ found.via = "envUpper" /\ foundCE.via = "envUpper"

\* C14 (ChromeExtension): the token returned is longer than the threshold, and it
\* comes from the first source whose candidate is.
C14_CELengthThreshold ==
    (foundCE # NotRun /\ foundCE.token # Null) =>
        /\ Len(foundCE.token) > MinTokenLength
        /\ foundCE.via = FirstYielding(CEMethods, env, CEYields)

\* C14: in both implementations a candidate whose length is at or below the
\* threshold is never returned; the next source in the probe order is tried instead.
C14_LengthThreshold ==
    /\ (found # NotRun /\ found.token # Null) => Len(found.token) > MinTokenLength
    /\ (foundCE # NotRun /\ foundCE.token # Null) => Len(foundCE.token) > MinTokenLength

\* the shared-module discovery returned a token of three characters while a later
\* source held a long one
C14_ShortReturned ==
    /\ found # NotRun /\ found.token # Null
    /\ Len(found.token) <= MinTokenLength
    /\ \E s \in Sources : /\ Before(SharedMethods, found.via, s)
                           /\ SharedYields(env, s)
                           /\ Len(RawOf(env, s)) > MinTokenLength

\* the X-CSRF-Token header of the last request
CsrfHeader == sent.headers["X-CSRF-Token"]

\* the discovery of the executor that made the last request, run on page e
DiscoveryOf(by, e) == IF by = "shared" THEN findCSRFToken(e) ELSE findCSRFTokenCE(e)

\* C15: the token attached to a call is the one found in the page during that call:
\* each call runs discovery on the page as it is then and sends what it found, so a
\* token that rotated since the call before is never sent stale.
C15_FreshPerCall ==
    [][(sent'.n = sent.n + 1) =>
            /\ sent'.token = DiscoveryOf(sent'.by, env)
            /\ sent'.headers["X-CSRF-Token"] =
                    (IF DiscoveryOf(sent'.by, env).token = Null THEN <<>>
                     ELSE EnsureDecoded(DiscoveryOf(sent'.by, env).token))]_vars

\* the token rotated between two calls, and the second call carries the token the
\* page holds now, not the one of the first call
C15_Witness ==
    /\ sent.n = 2
    /\ sent.prev # <<>> /\ CsrfHeader # <<>> /\ sent.prev # CsrfHeader
    /\ sent.token = DiscoveryOf(sent.by, env)

\* the candidate of the last call's executor on page e: the first source of its probe
\* order that holds a string its loop accepts
CandidateSource(by, e) ==
    IF by = "shared" THEN FirstYielding(SharedMethods, e, SharedCandidate)
    ELSE FirstYielding(CEMethods, e, CECandidate)

\* C18: a candidate x that contains no '%' is returned by discovery unchanged and sent
\* unchanged in the X-CSRF-Token header.
C18_NoPercentUnchanged ==
    [][(sent'.n = sent.n + 1) =>
            LET s == CandidateSource(sent'.by, env)
            IN  (s # "none" /\ ~IncludesChar(RawOf(env, s), "%")) =>
                    /\ sent'.token.token = RawOf(env, s)
                    /\ sent'.headers["X-CSRF-Token"] = RawOf(env, s)]_vars

\* a call sent the plain token of window.ENV.CSRF_TOKEN as it stands in the page
C18_Witness ==
    /\ sent.n > 0
    /\ sent.token.via = "envUpper"
    /\ sent.token.token = Token("envUpper", "plain")
    /\ CsrfHeader = Token("envUpper", "plain")

\* C20: the X-CSRF-Token header is exactly the value discovery returned: the executor
\* does not decode a second time, and a token discovery kept encoded is sent encoded.
C20_HeaderIsDiscovered ==
    sent.n > 0 => CsrfHeader = (IF sent.token.token = Null THEN <<>> ELSE sent.token.token)

\* the ChromeExtension discovery kept a token encoded because its decoded form holds
\* a character outside the token alphabet, and the executor sent it decoded
C20_KeptEncodedSentDecoded ==
    /\ sent.n > 0 /\ sent.by = "ce"
    /\ IncludesChar(sent.token.token, "%")
    /\ ~LooksValid(decodeURIComponent(sent.token.token))
    /\ CsrfHeader = decodeURIComponent(sent.token.token)

\* discovery decoded '%25' to '%', and the executor of the shared module decoded the
\* result once more
C20_DecodedTwice ==
    /\ sent.n > 0 /\ sent.by = "shared"
    /\ IncludesChar(sent.token.token, "%")
    /\ decodeURIComponent(sent.token.token) # Thrown
    /\ CsrfHeader = decodeURIComponent(sent.token.token)

(***************************************************************************)
(* Probe order                                                             *)
(***************************************************************************)
\* C17: the configuration object window.ENV.CSRF_TOKEN is probed first: whenever it
\* holds a token, that token is the one returned.
C17_ConfigFirst ==
    /\ (found # NotRun /\ SharedYields(env, "envUpper")) => found.via = "envUpper"
    /\ (foundCE # NotRun /\ CEYields(env, "envUpper")) => foundCE.via = "envUpper"

\* the meta tags, and in the shared module the data attribute, come before the
\* configuration object
SharedBeforeConfig == {"metaDash", "metaUnder", "dataAttr"}
CEBeforeConfig == {"metaDash", "metaUnder"}

\* C17 (as the code has it): the meta tags (and, in the shared module, the
\* [data-csrf-token] attribute) are probed before window.ENV.CSRF_TOKEN; the token of
\* the configuration object is returned exactly when none of them yields a candidate,
\* and it is preferred over every other source (cookies, inline scripts, ...).
C17_MetaBeforeConfig ==
    /\ (found # NotRun /\ SharedYields(env, "envUpper")) =>
            IF \E s \in SharedBeforeConfig : SharedYields(env, s)
            THEN found.via \in SharedBeforeConfig
            ELSE found.via = "envUpper" /\ found.token[1] = Tag("envUpper")
    /\ (foundCE # NotRun /\ CEYields(env, "envUpper")) =>
            IF \E s \in CEBeforeConfig : CEYields(env, s)
            THEN foundCE.via \in CEBeforeConfig
            ELSE foundCE.via = "envUpper" /\ foundCE.token[1] = Tag("envUpper")

\* both implementations ran on a page with a token in a meta tag and another in
\* window.ENV.CSRF_TOKEN, and returned the one of the meta tag
C17_Witness ==
    /\ found # NotRun /\ foundCE # NotRun
    /\ SharedYields(env, "envUpper") /\ CEYields(env, "envUpper")
    /\ found.via = "metaDash" /\ foundCE.via = "metaDash"

(***************************************************************************)
(* Response decoding and late results                                      *)
(***************************************************************************)
\* the raw text of the endpoint's answer is in the caller's response
RawSurfaced(r) ==
    \/ reply[r].error.rawResponse = stats[r].last.text
    \/ reply[r].error.data.message = <<stats[r].last.text>>
    \/ Contains(reply[r].error.message, stats[r].last.text)

\* the status code of the endpoint's answer is in the caller's response
StatusSurfaced(r) ==
    \/ reply[r].error.status = stats[r].last.status
    \/ Contains(reply[r].error.message, ToString(stats[r].last.status))

\* C16: when the endpoint's answer, 2xx or not, has a body that is not valid JSON, the
\* caller's response carries the raw text and the status code; the relay does not fail
\* with a parse error.
C16_RawTextSurfaced ==
    \A r \in ReqIds :
        (EndedByAnswer(r) /\ ~stats[r].last.json) =>
            /\ Answered(r)
            /\ reply[r].error.message # MsgJson
            /\ RawSurfaced(r)
            /\ StatusSurfaced(r)

\* a 200 answer with an HTML body reached the caller as a JSON parse error
C16_ParseErrorReturned ==
    \E r \in ReqIds :
        /\ EndedByAnswer(r) /\ ResponseOk(stats[r].last) /\ ~stats[r].last.json
        /\ Answered(r) /\ reply[r].error.message = MsgJson

\* C19: a result that completes after the connection its query came on has gone away
\* is dropped: the step in which such a query settles posts nothing on any connection,
\* in particular not on one opened by a reconnect.
C19_LateResultDropped ==
    [][\A r \in ReqIds :
            (/\ InFlight(r) /\ Done(r)'
             /\ req[r].channel = "native"
             /\ ports[req[r].port].st # "open") => ports' = ports]_vars

\* the response of a query sits on a connection that was opened after the query's
\* own connection closed
C19_PostedOnLaterConnection ==
    \E p \in PortIds : \E m \in ResponsesOn(p) :
        /\ req[m.of].port # p
        /\ ports[req[m.of].port].st = "closed"


\* C21: a listener of the extension calls sendResponse at most once for a message, and
\* exactly once when the executeQuery it started has settled: with {success: true, data}
\* and no error, or with {success: false, error} and no data; a message with another
\* action starts no lookup, no injection, no delivery and gets no response
OneResponse(r) ==
    /\ reply[r].calls <= 1
    /\ Done(r) <=> reply[r].calls = 1
    /\ reply[r].sent <=> reply[r].calls = 1
    /\ reply[r].sent =>
          IF reply[r].success
          THEN reply[r].error = NoErr
          ELSE reply[r].data = NoBody /\ reply[r].error.message # Absent

RetryStep(r) ==
    /\ (pc'[r] = "inject" /\ pc[r] # "inject") =>
          /\ pc[r] = "back1"
          /\ stats[r].sends = 1
          /\ ~AttemptOk(loc[r].out)
          /\ IncludesCCE(AttemptError(loc[r].out))
    /\ (pc'[r] = "wait" /\ pc[r] # "wait") =>
          /\ pc[r] = "inject"
          /\ stats[r].injects = 0
          /\ stats'[r].injects = 1
    /\ stats'[r].sends # stats[r].sends =>
          /\ stats'[r].sends = stats[r].sends + 1
          /\ \/ stats[r].sends = 0 /\ pc'[r] = "sent1"
             \/ stats[r].sends = 1 /\ pc[r] = "wait" /\ pc'[r] = "sent2"
    /\ (pc[r] = "back2" /\ pc'[r] # pc[r]) =>
          /\ pc'[r] = (IF AttemptOk(loc[r].out) THEN "resolved" ELSE "rejected")
          /\ stats'[r].sends = 2
          /\ ~AttemptOk(loc[r].out) =>
                /\ reply'[r].sent /\ ~reply'[r].success
                /\ reply'[r].error.message = <<InjectPrefix>> \o AttemptError(loc[r].out)
    /\ stats'[r].sends <= 2

C22_AtMostTwoAttempts == [][\A r \in ReqIds : RetryStep(r)]_vars

\* a request was sent twice, around one injection, and ended with the error of the
\* second attempt
C22_Witness ==
    \E r \in ReqIds :
        /\ stats[r].sends = 2
        /\ stats[r].injects = 1
        /\ pc[r] = "rejected"
        /\ reply[r].sent /\ ~reply[r].success

\* C23: handleQueryExecution waits for window.CanvasGraphQL for at most MaxWait turns;
\* when it answers, either the module is there and each handler has issued its one POST,
\* or the module is missing after all MaxWait turns and the answer is the error 'Canvas
\* GraphQL shared module not loaded' with no POST
HandlerAnswers(r) ==
    /\ Executing(r)
    /\ pc'[r] = BackOf(r)
    /\ loc'[r].out.kind = "resp"

WaitStep(r) ==
    /\ loc'[r].polls <= MaxWait
    /\ loc'[r].polls > 0 => Executing(r) /\ pc'[r] = pc[r]
    /\ HandlerAnswers(r) =>
          IF tabs[loc[r].tabId].module
          THEN /\ stats'[r].posts = stats[r].posts + loc[r].n
               /\ loc'[r].out.resp = ContentResponse(executeGraphQLQuery(stats'[r].last))
          ELSE /\ loc[r].polls = MaxWait
               /\ stats'[r].posts = stats[r].posts
               /\ ~loc'[r].out.resp.success
               /\ loc'[r].out.resp.error.message = MsgModule

C23_BoundedWait == [][\A r \in ReqIds : WaitStep(r)]_vars

\* a handler gave up after all its turns, with no POST made for the request
C23_Witness ==
    \E r \in ReqIds :
        /\ pc[r] = "back1"
        /\ loc[r].out.kind = "resp"
        /\ loc[r].out.resp.error.message = MsgModule
        /\ stats[r].posts = 0


\* C24: findCanvasTab returns only a tab that exists and has a Canvas URL when the
\* lookup checks it; an entry whose tab chrome.tabs.get does not find is deleted by
\* that check; the step of chrome.tabs.onRemoved(t) deletes the entry of t, and a tab
\* that is gone has no entry; the lookup returns null, and executeQuery fails with 'No
\* active Canvas tab found', when no open tab has a Canvas URL
Tracked(t) == Position(canvasTabs, t) # 0

Returns(r) == stats[r].sends = 0 /\ stats'[r].sends = 1

ReturnsNull(r) == InLookup(r) /\ pc'[r] = "rejected"

GetRejected(r) == loc'[r].turn # loc[r].turn /\ pc[r] = "tracked"

LookupStep(r) ==
    /\ Returns(r) =>
          /\ loc'[r].tabId \in TabIds
          /\ tabs[loc'[r].tabId].st = "open"
          /\ UrlIsCanvas(tabs[loc'[r].tabId].url)
    /\ ReturnsNull(r) =>
          /\ CanvasCandidates = {}
          /\ reply'[r].error.message = MsgNoTab
    /\ (InLookup(r) /\ CanvasCandidates = {} /\ pc'[r] # pc[r]) =>
          pc'[r] \in {"tracked", "queryAll", "rejected"}
    /\ GetRejected(r) =>
          LET t == canvasTabs[loc[r].it + 1]
          IN  /\ tabs[t].st # "open"
              /\ Position(canvasTabs', t) = 0

RemovedStep(t) ==
    (tabs[t].st = "closing" /\ tabs'[t] = ClosedTab) => Position(canvasTabs', t) = 0

NoEntryForGoneTab == \A t \in TabIds : tabs[t] = ClosedTab => ~Tracked(t)

C24_LookupAndRemoval ==
    /\ [][\A r \in ReqIds : LookupStep(r)]_vars
    /\ [][\A t \in TabIds : RemovedStep(t)]_vars
    /\ []NoEntryForGoneTab

\* C24 as stated: when findCanvasTab returns, every entry left in canvasTabs belongs
\* to a tab that exists
C24_NoMissingEntryLeft ==
    [][\A r \in ReqIds :
          (Returns(r) \/ ReturnsNull(r)) =>
              \A k \in 1..Len(canvasTabs') : tabs[canvasTabs'[k]].st = "open"]_vars

\* a lookup deleted the entry of a tab that was gone and then returned a Canvas tab
C24_Witness ==
    \E r \in ReqIds :
        /\ loc[r].turn = 1
        /\ stats[r].sends = 1
        /\ loc[r].tabId \in TabIds

\* C25: at any time at most one connection to the native host is open and at most one
\* call of connectNativeHost is pending
OpenPorts == {p \in PortIds : ports[p].st = "open"}

C25_OneConnectionOneRetry ==
    /\ Cardinality(OpenPorts) <= 1
    /\ timers <= 1

\* C26: while connectNative exists and the extension holds no connection, a call of
\* connectNativeHost is pending; a disconnect schedules one more call and a connect
\* attempt that throws keeps one pending; so the extension connects again once an
\* attempt can succeed; without connectNative no connection is ever opened and the
\* startup call leaves no call pending
Disconnects(p) == ports[p].st = "open" /\ ports'[p].st = "closed"

C26_RetriesUntilConnected ==
    /\ [](api => (nativePort = 0 => timers > 0))
    /\ [][\A p \in PortIds : (Disconnects(p) /\ api) =>
              (timers' = timers + 1 /\ nativePort' = 0)]_vars
    /\ [][(api /\ nativePort = 0 /\ nativePort' = 0) => timers' >= timers]_vars
    /\ (api /\ nativePort = 0) ~> (nativePort # 0 /\ ports[nativePort].st = "open")
    /\ [](~api => (nativePort = 0 /\ \A p \in PortIds : ports[p] = NoPort))
    /\ [][~api => (timers' <= timers /\ timers' \in {0, timers})]_vars
    /\ (~api) ~> (timers = 0)

\* the host dropped a connection and the extension holds a newer one
C26_Witness ==
    /\ api
    /\ \E p \in PortIds : ports[p].st = "closed"
    /\ nativePort # 0
    /\ ports[nativePort].st = "open"

\* C27: every tab findCanvasTab returns satisfies the predicate of the onUpdated
\* listener (its hostname is a Canvas hostname), so every request is sent to a tab
\* whose host is a Canvas host
C27_ReturnedTabIsRegistrable ==
    [][\A r \in ReqIds : Returns(r) => HostIsCanvas(tabs[loc'[r].tabId].url)]_vars

\* C30: a request whose query is missing or empty is rejected with 'Query is required'
\* in the step that receives it: no lookup starts, nothing is injected or sent to a tab,
\* and canvasTabs is unchanged
Arrives(r) ==
    /\ pc[r] = "idle"
    /\ pc'[r] # "idle"
    /\ ListenerTakes(req'[r].channel, req'[r].action)

RejectsMissingQuery(r) ==
    (Arrives(r) /\ req'[r].query = Absent) =>
        /\ pc'[r] = "rejected"
        /\ canvasTabs' = canvasTabs
        /\ tabs' = tabs
        /\ stats'[r] = NoStats
        /\ loc'[r] = NoLoc
        /\ req'[r].channel \in ExtensionChannels =>
              /\ reply'[r].sent /\ ~reply'[r].success
              /\ reply'[r].error.message = MsgQueryRequired

C30_QueryRequiredFirst ==
    /\ [][\A r \in ReqIds : RejectsMissingQuery(r)]_vars
    /\ [](\A r \in ReqIds :
            (req[r].query = Absent /\ pc[r] \notin {"idle", "ignored"}) =>
                (pc[r] = "rejected" /\ stats[r] = NoStats))

\* a request without a query was rejected while a Canvas tab was open and tracked
C30_Witness ==
    \E r \in ReqIds :
        /\ req[r].action = "executeGraphQLQuery"
        /\ req[r].query = Absent
        /\ pc[r] = "rejected"
        /\ reply[r].error.message = MsgQueryRequired
        /\ canvasTabs # <<>>
        /\ \E t \in TabIds : tabs[t].st = "open" /\ HostIsCanvas(tabs[t].url)

\* C28: on one page, when the ChromeExtension findCSRFToken returns a token the
\* diagnostic reports that token, and the diagnostic reports no token exactly when
\* findCSRFToken returns null
ReportsToken(f) == f.foundToken # Thrown /\ Truthy(f.foundToken)

C28_DiagnosticIsFinder ==
    (diag # NoFindings /\ foundCE # NotRun) =>
        /\ diag # DiagThrown
        /\ foundCE.token # Null => diag.foundToken = foundCE.token
        /\ ~ReportsToken(diag) <=> foundCE.token = Null

\* C29: in the popup at most one fetchGraphQL request is in flight; the Fetch button
\* is disabled while one is and enabled when none is
Sending == {c \in Clicks : popup.h[c] = "sending"}

C29_OneRequestInFlight ==
    /\ Cardinality(Sending) <= 1
    /\ Sending # {} => popup.disabled
    /\ Sending = {} => ~popup.disabled
====
